---- MODULE Spec2Model ----
(***************************************************************************)
(* Model of capacity_manager.forecasting.predictor.CapacityPredictor.      *)
(*                                                                         *)
(* Python floats are modelled as exact rationals <<numerator, denominator>>*)
(* (denominator > 0, lowest terms); math.sqrt is the one operation that    *)
(* leaves the rationals and is modelled by Sqrt, which rounds down to      *)
(* SqrtDigits decimal places.  datetimes are whole days (integers) and     *)
(* timedelta(days=d) is d.  Optional values are <<>> (None) or <<v>>.      *)
(***************************************************************************)
EXTENDS Integers, Sequences, FiniteSets, TLC

\* ------------------------------------------------------------------ bounds
MaxLen == 3
MaxHorizon == 2
MaxPeriod == 2
MaxAccLen == 7
\* calls counted after the one a caller keeps for comparison
MaxLater == 2
SqrtDigits == 1

\* Utilization percentages the samples are drawn from.
Values == {0, 90}
\* Sample timestamps, in days.
Days == {0, 1, 2}

\* --------------------------------------------------------------- Optional
NoneVal == <<>>
Some(v) == <<v>>

\* A Python list built by a comprehension: the sequence of its elements.
List(f) == f \o <<>>
Smaller(a, b) == IF a < b THEN a ELSE b

\* ----------------------------------------------------- rational arithmetic
\* A value computed once is handed on as an operator argument, so that
\* each step of a computation is written (and evaluated) once.
Abs(n) == IF n < 0 THEN -n ELSE n

RECURSIVE GCD(_, _)
GCD(a, b) == IF b = 0 THEN a ELSE GCD(b, a % b)

LCM(a, b) == (a \div GCD(a, b)) * b

Reduce(n, d, g) ==
    IF d < 0 THEN <<-(n \div g), -(d \div g)>> ELSE <<n \div g, d \div g>>

\* n/d in lowest terms with a positive denominator (d # 0).
Norm(n, d) == Reduce(n, d, GCD(Abs(n), Abs(d)))

R(n) == <<n, 1>>
Zero == <<0, 1>>
One == <<1, 1>>

RNeg(a) == <<-a[1], a[2]>>

AddOver(a, b, l) == Norm(a[1] * (l \div a[2]) + b[1] * (l \div b[2]), l)
RAdd(a, b) == AddOver(a, b, LCM(a[2], b[2]))

RSub(a, b) == RAdd(a, RNeg(b))

MulReduced(a, b, g1, g2) ==
    Norm((a[1] \div g1) * (b[1] \div g2), (a[2] \div g2) * (b[2] \div g1))
RMul(a, b) == MulReduced(a, b, GCD(Abs(a[1]), b[2]), GCD(Abs(b[1]), a[2]))

\* a / b for b # 0 (the callers guard b = 0, where Python raises).
RDiv(a, b) ==
    RMul(a, IF b[1] < 0 THEN <<-b[2], -b[1]>> ELSE <<b[2], b[1]>>)

LeOver(a, b, l) == a[1] * (l \div a[2]) <= b[1] * (l \div b[2])
RLe(a, b) == LeOver(a, b, LCM(a[2], b[2]))

RLt(a, b) == ~RLe(b, a)

RMax(a, b) == IF RLe(b, a) THEN a ELSE b
RMin(a, b) == IF RLe(a, b) THEN a ELSE b
RAbs(a) == <<Abs(a[1]), a[2]>>

\* int(a): truncation toward zero.
RInt(a) == IF a[1] >= 0 THEN a[1] \div a[2] ELSE -((-a[1]) \div a[2])

RECURSIVE RSum(_)
\* The sum of the rest is a value before it is added to.
RSum(s) ==
    IF s = <<>> THEN Zero
    ELSE CHOOSE t \in {RAdd(Head(s), rest) : rest \in {RSum(Tail(s))}} : TRUE

\* statistics.mean of a non-empty sequence.
Mean(s) == RDiv(RSum(s), R(Len(s)))

RECURSIVE Pow10(_)
Pow10(k) == IF k = 0 THEN 1 ELSE 10 * Pow10(k - 1)

\* Largest k in lo..hi-1 with k*k <= n, given lo*lo <= n < hi*hi.
RECURSIVE ISqrtIter(_, _, _)
ISqrtIter(n, lo, hi) ==
    IF hi - lo <= 1 THEN lo
    ELSE IF ((lo + hi) \div 2) * ((lo + hi) \div 2) <= n
         THEN ISqrtIter(n, (lo + hi) \div 2, hi)
         ELSE ISqrtIter(n, lo, (lo + hi) \div 2)

ISqrt(n) == ISqrtIter(n, 0, 46340)

\* floor(a * s * s) for a >= 0
ScaleUp(a, s) == (a[1] \div a[2]) * (s * s) + ((a[1] % a[2]) * (s * s)) \div a[2]

SqrtAt(a, s) == Norm(ISqrt(ScaleUp(a, s)), s)

\* math.sqrt(a) for a >= 0, rounded down to SqrtDigits decimal places.
Sqrt(a) == SqrtAt(a, Pow10(SqrtDigits))

Deviations(s, c) == List([i \in 1..Len(s) |-> RSub(s[i], c)])
Squares(s) == List([i \in 1..Len(s) |-> RMul(s[i], s[i])])

\* statistics.variance: sample variance (n - 1 in the denominator), n >= 2.
Variance(s) == RDiv(RSum(Squares(Deviations(s, Mean(s)))), R(Len(s) - 1))

\* statistics.stdev
Stdev(s) == Sqrt(Variance(s))

\* max(0, v), min(100, v), max(0, min(100, v))
Hundred == <<100, 1>>
ClampLow(v) == RMax(Zero, v)
ClampHigh(v) == RMin(Hundred, v)
Clamp(v) == RMax(Zero, RMin(Hundred, v))

\* --------------------------------------------------- wide decimal arithmetic
\* The level and the trend of the smoothing pass gain two decimal places a
\* sample, and on a week of samples no longer fit <<numerator, denominator>>
\* with machine integers.  There a float is the exact decimal
\* <<sign, digits, scale>>: sign * digits / Base^scale, sign in {-1, 0, 1},
\* digits the digits in base Base of a natural number with the units first
\* and no leading zeros, and the scale as small as it can be.
Base == Pow10(4)

RECURSIVE Strip(_)
Strip(a) ==
    IF a = <<>> THEN a
    ELSE IF a[Len(a)] = 0 THEN Strip(SubSeq(a, 1, Len(a) - 1)) ELSE a

RECURSIVE Digits(_)
Digits(n) == IF n = 0 THEN <<>> ELSE <<n % Base>> \o Digits(n \div Base)

DigitAt(a, i) == IF i <= Len(a) THEN a[i] ELSE 0

\* a * Base^k
Shift(a, k) == IF a = <<>> THEN a ELSE [i \in 1..k |-> 0] \o a

RECURSIVE AddFrom(_, _, _, _)
AddFrom(a, b, i, carry) ==
    IF i > Len(a) /\ i > Len(b) THEN Digits(carry)
    ELSE <<(DigitAt(a, i) + DigitAt(b, i) + carry) % Base>>
         \o AddFrom(a, b, i + 1, (DigitAt(a, i) + DigitAt(b, i) + carry) \div Base)

NatAdd(a, b) == AddFrom(a, b, 1, 0)

\* a - b for a >= b
RECURSIVE SubFrom(_, _, _, _)
SubFrom(a, b, i, borrow) ==
    IF i > Len(a) THEN <<>>
    ELSE <<(a[i] - DigitAt(b, i) - borrow + Base) % Base>>
         \o SubFrom(a, b, i + 1,
                    IF a[i] - DigitAt(b, i) - borrow < 0 THEN 1 ELSE 0)

NatSub(a, b) == Strip(SubFrom(a, b, 1, 0))

RECURSIVE LessFrom(_, _, _)
LessFrom(a, b, i) ==
    IF i = 0 THEN FALSE
    ELSE IF a[i] # b[i] THEN a[i] < b[i]
    ELSE LessFrom(a, b, i - 1)

NatLess(a, b) ==
    IF Len(a) # Len(b) THEN Len(a) < Len(b) ELSE LessFrom(a, b, Len(a))

\* a * m for a digit m
RECURSIVE TimesDigitFrom(_, _, _, _)
TimesDigitFrom(a, m, i, carry) ==
    IF i > Len(a) THEN Digits(carry)
    ELSE <<(a[i] * m + carry) % Base>>
         \o TimesDigitFrom(a, m, i + 1, (a[i] * m + carry) \div Base)

RECURSIVE TimesFrom(_, _, _)
TimesFrom(a, b, j) ==
    IF j > Len(b) THEN <<>>
    ELSE NatAdd(<<0>> \o TimesFrom(a, b, j + 1), TimesDigitFrom(a, b[j], 1, 0))

NatMul(a, b) == Strip(TimesFrom(a, b, 1))

\* The largest q in lo..hi-1 with q * b <= a, given lo * b <= a < hi * b.
RECURSIVE QuotientIter(_, _, _, _)
QuotientIter(a, b, lo, hi) ==
    IF hi - lo <= 1 THEN lo
    ELSE IF NatLess(a, NatMul(b, Digits((lo + hi) \div 2)))
         THEN QuotientIter(a, b, lo, (lo + hi) \div 2)
         ELSE QuotientIter(a, b, (lo + hi) \div 2, hi)

\* A power of two hi with a < hi * b, for b # 0.
RECURSIVE Above(_, _, _)
Above(a, b, hi) ==
    IF NatLess(a, NatMul(b, Digits(hi))) THEN hi ELSE Above(a, b, 2 * hi)

\* floor(a / b) for b # 0, where it fits a machine integer
NatDiv(a, b) == QuotientIter(a, b, 0, Above(a, b, 1))

RECURSIVE Lowest(_, _, _)
Lowest(sign, digits, scale) ==
    IF scale > 0 /\ digits[1] = 0 THEN Lowest(sign, Tail(digits), scale - 1)
    ELSE <<sign, digits, scale>>

DZero == <<0, <<>>, 0>>
Decimal(sign, digits, scale) ==
    IF digits = <<>> \/ sign = 0 THEN DZero ELSE Lowest(sign, digits, scale)

\* The decimal of a whole number, and of a rational whose denominator
\* divides a power of ten.
DInt(n) == Decimal(IF n < 0 THEN -1 ELSE 1, Digits(Abs(n)), 0)

RECURSIVE Places(_, _)
Places(d, k) == IF Pow10(4 * k) % d = 0 THEN k ELSE Places(d, k + 1)

DScaled(r, k) ==
    Decimal(IF r[1] < 0 THEN -1 ELSE 1,
            NatMul(Digits(Abs(r[1])), Digits(Pow10(4 * k) \div r[2])), k)
DOf(r) == DScaled(r, Places(r[2], 0))

DNeg(a) == <<-a[1], a[2], a[3]>>

\* The signed sum of two magnitudes at one scale.
SumAtScale(sa, a, sb, b, k) ==
    IF sa = 0 THEN Decimal(sb, b, k)
    ELSE IF sb = 0 THEN Decimal(sa, a, k)
    ELSE IF sa = sb THEN Decimal(sa, NatAdd(a, b), k)
    ELSE IF NatLess(a, b) THEN Decimal(sb, NatSub(b, a), k)
    ELSE Decimal(sa, NatSub(a, b), k)

AddAtScale(a, b, k) ==
    SumAtScale(a[1], Shift(a[2], k - a[3]), b[1], Shift(b[2], k - b[3]), k)
DAdd(a, b) == AddAtScale(a, b, IF a[3] > b[3] THEN a[3] ELSE b[3])
DSub(a, b) == DAdd(a, DNeg(b))
DMul(a, b) == Decimal(a[1] * b[1], NatMul(a[2], b[2]), a[3] + b[3])

DLe(a, b) == DSub(a, b)[1] <= 0
DLt(a, b) == DSub(a, b)[1] < 0
DMax(a, b) == IF DLe(b, a) THEN a ELSE b
DMin(a, b) == IF DLe(a, b) THEN a ELSE b
DAbs(a) == <<Abs(a[1]), a[2], a[3]>>

\* int(a / b) for a >= 0 and b > 0
QuotientAtScale(a, b, k) ==
    NatDiv(Shift(a[2], k - a[3]), Shift(b[2], k - b[3]))
DQuotient(a, b) == QuotientAtScale(a, b, IF a[3] > b[3] THEN a[3] ELSE b[3])

\* ------------------------------------------------ CapacityPredictor helpers
WarningDefault == 70
CriticalDefault == 85
CapacityDefault == 95

\* CapacityPredictor.__init__
NewPredictor(warning, critical, capacity) ==
    [warning_threshold |-> warning,
     critical_threshold |-> critical,
     capacity_threshold |-> capacity]

ForecastPoint(ts, predicted, lower, upper) ==
    [timestamp |-> ts,
     predicted_utilization |-> predicted,
     confidence_lower |-> lower,
     confidence_upper |-> upper]

\* ForecastResult with the dataclass defaults for the fields not given.
ForecastResult(name, current, points, dw, dc, dcap, strength, confidence, acc) ==
    [channel_name |-> name,
     current_utilization |-> current,
     forecast_points |-> points,
     days_to_warning |-> dw,
     days_to_critical |-> dc,
     days_to_capacity |-> dcap,
     trend_strength |-> strength,
     forecast_confidence |-> confidence,
     is_accelerating |-> acc,
     seasonal_pattern |-> NoneVal]

\* _empty_forecast
EmptyForecast(name, current) ==
    ForecastResult(name, current, <<>>, NoneVal, NoneVal, NoneVal,
                   Zero, Zero, FALSE)

\* What a call does: it returns a value or raises.
Returned(v) == [raised |-> "", value |-> v]
Raised(exc) == [raised |-> exc, value |-> NoneVal]

\* sorted(historical_data, key=lambda x: x[0]): stable, ascending timestamp.
InsertAt(e, s, k) == SubSeq(s, 1, k) \o <<e>> \o SubSeq(s, k + 1, Len(s))
InsertByTime(e, s) ==
    InsertAt(e, s, Cardinality({i \in 1..Len(s) : s[i][1] <= e[1]}))

RECURSIVE SortPrefix(_, _)
SortPrefix(data, k) ==
    IF k = 0 THEN <<>> ELSE InsertByTime(data[k], SortPrefix(data, k - 1))

\* Mutant: the samples left in the order they were handed over.
SortByTime_Unsorted(data) == data

SortByTime(data) == SortPrefix(data, Len(data))

\* Mutant: the list sorted in place, as historical_data.sort(...) would.
AfterSorted_InPlace(historical_data) == SortByTime(historical_data)

\* The caller's list after sorted(historical_data, ...): sorted builds a new
\* list and leaves the one it is given as it is.
AfterSorted(historical_data) == historical_data

Products(x, y) == List([i \in 1..Len(x) |-> RMul(x[i], y[i])])

\* n * sum_x2 - sum_x * sum_x, the divisor of the slope.
DivisorOf(n, sum_x, sum_x2) == RSub(RMul(n, sum_x2), RMul(sum_x, sum_x))
RegressionDivisor(x) == DivisorOf(R(Len(x)), RSum(x), RSum(Squares(x)))

\* m = (n * sum_xy - sum_x * sum_y) / (n * sum_x2 - sum_x * sum_x)
Slope(x, y) ==
    RDiv(RSub(RMul(R(Len(x)), RSum(Products(x, y))), RMul(RSum(x), RSum(y))),
         RegressionDivisor(x))

\* b = (sum_y - m * sum_x) / n
WithIntercept(x, y, m) ==
    [m |-> m, b |-> RDiv(RSub(RSum(y), RMul(m, RSum(x))), R(Len(x)))]

\* _linear_regression, where the divisor is not 0.
LinearRegression(x, y) == WithIntercept(x, y, Slope(x, y))

\* yi - (m * xi + b)
Residuals(x, y, m, b) ==
    List([i \in 1..Len(x) |-> RSub(y[i], RAdd(RMul(m, x[i]), b))])

\* Mutant: the share of the residuals, not its complement.
RSquaredOf_Residual(ss_res, ss_tot) ==
    IF ss_tot = Zero THEN Zero ELSE RDiv(ss_res, ss_tot)

RSquaredOf(ss_res, ss_tot) ==
    IF ss_tot = Zero THEN Zero ELSE RSub(One, RDiv(ss_res, ss_tot))

\* _calculate_r_squared
CalculateRSquared(x, y, m, b) ==
    RSquaredOf(RSum(Squares(Residuals(x, y, m, b))),
               RSum(Squares(Deviations(y, Mean(y)))))

\* _calculate_trend_strength
CalculateTrendStrength(x, y, m, b) == CalculateRSquared(x, y, m, b)

\* _calculate_std_error
CalculateStdError(x, y, m, b) ==
    Sqrt(RDiv(RSum(Squares(Residuals(x, y, m, b))), R(Len(x))))

DaysOrNone(days) == IF RLt(Zero, days) THEN Some(RInt(days)) ELSE NoneVal

\* Mutant: the rate is looked at before "already crossed".
FindThresholdCrossing_RateFirst(current_value, rate, threshold) ==
    IF RLe(rate, Zero) THEN NoneVal
    ELSE IF RLe(threshold, current_value) THEN Some(0)
    ELSE DaysOrNone(RDiv(RSub(threshold, current_value), rate))

\* Mutant: "already crossed" tested the wrong way round.
FindThresholdCrossing_Inverted(current_value, rate, threshold) ==
    IF RLe(current_value, threshold) THEN Some(0)
    ELSE IF RLe(rate, Zero) THEN NoneVal
    ELSE DaysOrNone(RDiv(RSub(threshold, current_value), rate))

\* _find_threshold_crossing
FindThresholdCrossing(current_value, rate, threshold) ==
    IF RLe(threshold, current_value) THEN Some(0)
    ELSE IF RLe(rate, Zero) THEN NoneVal
    ELSE DaysOrNone(RDiv(RSub(threshold, current_value), rate))

\* Mutant: the split index rounded up.
Mid_RoundUp(values) == (Len(values) + 1) \div 2

\* _detect_acceleration: the split, the two rates and the verdict.
Mid(values) == Len(values) \div 2
FirstHalf(values) == SubSeq(values, 1, Mid(values))
SecondHalf(values) == SubSeq(values, Mid(values) + 1, Len(values))
HalfRate(half) == RDiv(RSub(half[Len(half)], half[1]), R(Len(half)))
AccelerationMargin == <<6, 5>>

\* Mutant: the 1.2 margin left out.
DetectAcceleration_NoMargin(values) ==
    IF Len(values) < 6 THEN FALSE
    ELSE RLt(HalfRate(FirstHalf(values)), HalfRate(SecondHalf(values)))

DetectAcceleration(values) ==
    IF Len(values) < 6 THEN FALSE
    ELSE RLt(RMul(HalfRate(FirstHalf(values)), AccelerationMargin),
             HalfRate(SecondHalf(values)))

\* -------------------------------------------------------- forecast methods
Utilizations(sorted_data) ==
    List([i \in 1..Len(sorted_data) |-> sorted_data[i][2]])

\* (dt - start_time).total_seconds() / 86400
ElapsedDays(sorted_data) ==
    List([i \in 1..Len(sorted_data) |-> R(sorted_data[i][1] - sorted_data[1][1])])

\* The ForecastPoint both forecast loops build from the day's timestamp,
\* the unclamped prediction and the confidence width.
BoundedPoint(ts, predicted, confidence_width) ==
    ForecastPoint(ts,
                  Clamp(predicted),
                  ClampLow(RSub(predicted, RMul(R(2), confidence_width))),
                  ClampHigh(RAdd(predicted, RMul(R(2), confidence_width))))

\* One pass of the loop of forecast_linear, for one day.
LinearPoint(sorted_data, x_values, y_values, m, b, day) ==
    BoundedPoint(
        sorted_data[Len(sorted_data)][1] + day,
        RAdd(RMul(m, RAdd(x_values[Len(x_values)], R(day))), b),
        RMul(CalculateStdError(x_values, y_values, m, b),
             Sqrt(RAdd(One, RDiv(R(day), R(Len(x_values)))))))

\* forecast_linear from the regression on: quality, points, crossings.
LinearResult(self, sorted_data, x_values, y_values, reg, forecast_days) ==
    ForecastResult(
        "",
        y_values[Len(y_values)],
        List([day \in 1..forecast_days |->
            LinearPoint(sorted_data, x_values, y_values, reg.m, reg.b, day)]),
        FindThresholdCrossing(y_values[Len(y_values)], reg.m, self.warning_threshold),
        FindThresholdCrossing(y_values[Len(y_values)], reg.m, self.critical_threshold),
        FindThresholdCrossing(y_values[Len(y_values)], reg.m, self.capacity_threshold),
        CalculateTrendStrength(x_values, y_values, reg.m, reg.b),
        CalculateRSquared(x_values, y_values, reg.m, reg.b),
        DetectAcceleration(y_values))

\* forecast_linear from the call of _linear_regression on; the division by
\* n * sum_x2 - sum_x * sum_x raises ZeroDivisionError when that is 0.
LinearOnXY(self, sorted_data, x_values, y_values, forecast_days) ==
    IF RegressionDivisor(x_values) = Zero THEN Raised("ZeroDivisionError")
    ELSE Returned(LinearResult(self, sorted_data, x_values, y_values,
                               LinearRegression(x_values, y_values),
                               forecast_days))

LinearOnSorted(self, sorted_data, forecast_days) ==
    LinearOnXY(self, sorted_data, ElapsedDays(sorted_data),
               Utilizations(sorted_data), forecast_days)

\* Mutant: the guard on the number of samples lets one sample through.
forecast_linear_OneSample(self, historical_data, forecast_days) ==
    IF Len(historical_data) < 1 THEN Returned(EmptyForecast("N/A", Zero))
    ELSE LinearOnSorted(self, SortByTime(historical_data), forecast_days)

\* forecast_linear
forecast_linear(self, historical_data, forecast_days) ==
    IF Len(historical_data) < 2 THEN Returned(EmptyForecast("N/A", Zero))
    ELSE LinearOnSorted(self, SortByTime(historical_data), forecast_days)

Beta == <<1, 10>>

\* trend = beta * (level - prev_level) + (1 - beta) * trend
WithTrend(prev, level) ==
    [level |-> level,
     trend |-> RAdd(RMul(Beta, RSub(level, prev.level)),
                    RMul(RSub(One, Beta), prev.trend))]

\* level = alpha * value + (1 - alpha) * (level + trend)
SmoothStep(prev, value, alpha) ==
    WithTrend(prev, RAdd(RMul(alpha, value),
                         RMul(RSub(One, alpha), RAdd(prev.level, prev.trend))))

\* The smoothing pass of forecast_exponential_smoothing: level and trend
\* after the first k values of values[1:].
RECURSIVE Smooth(_, _, _)
Smooth(values, alpha, k) ==
    IF k = 0
    THEN [level |-> values[1],
          trend |-> IF Len(values) > 1 THEN RSub(values[2], values[1]) ELSE Zero]
    ELSE SmoothStep(Smooth(values, alpha, k - 1), values[k + 1], alpha)

\* One pass of the forecast loop of forecast_exponential_smoothing.
SmoothingPoint(sorted_data, values, level, trend, day) ==
    BoundedPoint(
        sorted_data[Len(sorted_data)][1] + day,
        RAdd(level, RMul(R(day), trend)),
        RMul(Sqrt(IF Len(values) > 2 THEN Variance(values) ELSE Zero),
             Sqrt(R(day))))

\* Mutant: the crossing computed whatever the sign of the trend.
SmoothingCrossing_AnyTrend(current_util, trend, threshold) ==
    FindThresholdCrossing(current_util, trend, threshold)

\* days_to_* of forecast_exponential_smoothing
SmoothingCrossing(current_util, trend, threshold) ==
    IF RLt(Zero, trend) THEN FindThresholdCrossing(current_util, trend, threshold)
    ELSE NoneVal

\* Mutant: the cap at 1.0 left out.
SmoothingTrendStrength_Uncapped(trend) == RDiv(RAbs(trend), R(10))

\* trend_strength=min(abs(trend) / 10.0, 1.0)
SmoothingTrendStrength(trend) == RMin(RDiv(RAbs(trend), R(10)), One)

\* Confidence based on data stability
SmoothingConfidence(values) ==
    IF Len(values) > 2
    THEN RDiv(One, RAdd(One, RDiv(Stdev(values), R(10))))
    ELSE <<1, 2>>

\* forecast_exponential_smoothing from the smoothed level and trend on.
SmoothingResult(self, sorted_data, values, final, forecast_days) ==
    ForecastResult(
        "",
        values[Len(values)],
        List([day \in 1..forecast_days |->
            SmoothingPoint(sorted_data, values, final.level, final.trend, day)]),
        SmoothingCrossing(values[Len(values)], final.trend, self.warning_threshold),
        SmoothingCrossing(values[Len(values)], final.trend, self.critical_threshold),
        SmoothingCrossing(values[Len(values)], final.trend, self.capacity_threshold),
        SmoothingTrendStrength(final.trend),
        SmoothingConfidence(values),
        DetectAcceleration(values))

SmoothingOnValues(self, sorted_data, values, forecast_days, alpha) ==
    SmoothingResult(self, sorted_data, values,
                    Smooth(values, alpha, Len(values) - 1), forecast_days)

\* forecast_exponential_smoothing
forecast_exponential_smoothing(self, historical_data, forecast_days, alpha) ==
    IF Len(historical_data) < 2 THEN Returned(EmptyForecast("N/A", Zero))
    ELSE Returned(SmoothingOnValues(self, SortByTime(historical_data),
                                    Utilizations(SortByTime(historical_data)),
                                    forecast_days, alpha))

\* forecast_exponential_smoothing on more than MaxLen samples, where level
\* and trend are wide decimals; the variance, the confidence and the
\* acceleration are computed from the samples as before.
WideValues(values) == List([i \in 1..Len(values) |-> DOf(values[i])])

WithTrendWide(prev, level) ==
    [level |-> level,
     trend |-> DAdd(DMul(DOf(Beta), DSub(level, prev.level)),
                    DMul(DSub(DInt(1), DOf(Beta)), prev.trend))]

SmoothStepWide(prev, value, alpha) ==
    WithTrendWide(prev, DAdd(DMul(alpha, value),
                             DMul(DSub(DInt(1), alpha),
                                  DAdd(prev.level, prev.trend))))

\* The state after sample k + 1, each state a value before the next step.
RECURSIVE SmoothWide(_, _, _)
SmoothWide(values, alpha, k) ==
    IF k = 0
    THEN [level |-> values[1],
          trend |-> IF Len(values) > 1 THEN DSub(values[2], values[1]) ELSE DZero]
    ELSE CHOOSE next \in {SmoothStepWide(prev, values[k + 1], alpha) :
                              prev \in {SmoothWide(values, alpha, k - 1)}} : TRUE

BoundedPointWide(ts, predicted, confidence_width) ==
    ForecastPoint(ts,
                  DMax(DZero, DMin(DInt(100), predicted)),
                  DMax(DZero, DSub(predicted, DMul(DInt(2), confidence_width))),
                  DMin(DInt(100), DAdd(predicted, DMul(DInt(2), confidence_width))))

SmoothingPointWide(sorted_data, sqrt_variance, level, trend, day) ==
    BoundedPointWide(
        sorted_data[Len(sorted_data)][1] + day,
        DAdd(level, DMul(DInt(day), trend)),
        DOf(RMul(sqrt_variance, Sqrt(R(day)))))

\* days = gap / rate for rate > 0: int(days) if days > 0 else None
DaysOrNoneWide(gap, rate) ==
    IF DLt(DZero, gap) THEN Some(DQuotient(gap, rate)) ELSE NoneVal

FindThresholdCrossingWide(current_value, rate, threshold) ==
    IF DLe(threshold, current_value) THEN Some(0)
    ELSE IF DLe(rate, DZero) THEN NoneVal
    ELSE DaysOrNoneWide(DSub(threshold, current_value), rate)

SmoothingCrossingWide(current_util, trend, threshold) ==
    IF DLt(DZero, trend)
    THEN FindThresholdCrossingWide(current_util, trend, threshold)
    ELSE NoneVal

SmoothingTrendStrengthWide(trend) ==
    DMin(DMul(DAbs(trend), DOf(<<1, 10>>)), DInt(1))

SmoothingResultWide(self, sorted_data, values, final, sqrt_variance, forecast_days) ==
    ForecastResult(
        "",
        values[Len(values)],
        List([day \in 1..forecast_days |->
            SmoothingPointWide(sorted_data, sqrt_variance, final.level, final.trend, day)]),
        SmoothingCrossingWide(DOf(values[Len(values)]), final.trend,
                              DOf(self.warning_threshold)),
        SmoothingCrossingWide(DOf(values[Len(values)]), final.trend,
                              DOf(self.critical_threshold)),
        SmoothingCrossingWide(DOf(values[Len(values)]), final.trend,
                              DOf(self.capacity_threshold)),
        SmoothingTrendStrengthWide(final.trend),
        SmoothingConfidence(values),
        DetectAcceleration(values))

\* The smoothed state and math.sqrt(variance), the same on every day of the
\* loop, are values before the points are built from them.
SmoothingOnValuesWide(self, sorted_data, values, forecast_days, alpha) ==
    CHOOSE result \in
        {SmoothingResultWide(self, sorted_data, values, final, sqrt_variance,
                             forecast_days) :
            final \in {SmoothWide(WideValues(values), DOf(alpha),
                                  Len(values) - 1)},
            sqrt_variance \in {Sqrt(IF Len(values) > 2 THEN Variance(values)
                                    ELSE Zero)}} : TRUE

\* Mutant: the samples smoothed in the order they were handed over.
forecast_exponential_smoothing_wide_Unsorted(self, historical_data, forecast_days, alpha) ==
    IF Len(historical_data) < 2 THEN Returned(EmptyForecast("N/A", Zero))
    ELSE Returned(SmoothingOnValuesWide(self, historical_data,
                                        Utilizations(historical_data),
                                        forecast_days, alpha))

SmoothingOnSortedWide(self, sorted_data, forecast_days, alpha) ==
    SmoothingOnValuesWide(self, sorted_data, Utilizations(sorted_data),
                          forecast_days, alpha)

forecast_exponential_smoothing_wide(self, historical_data, forecast_days, alpha) ==
    IF Len(historical_data) < 2 THEN Returned(EmptyForecast("N/A", Zero))
    ELSE Returned(CHOOSE result \in
            {SmoothingOnSortedWide(self, sorted_data, forecast_days, alpha) :
                sorted_data \in {SortByTime(historical_data)}} : TRUE)

\* _seasonal_decomposition: values[start:end] around index i (from 0) ...
Window(values, i, half_period) ==
    SubSeq(values,
           (IF i - half_period > 0 THEN i - half_period ELSE 0) + 1,
           IF i + half_period + 1 < Len(values) THEN i + half_period + 1
           ELSE Len(values))

\* ... the moving-average trend ...
MovingAverage(values, period) ==
    List([k \in 1..Len(values) |-> Mean(Window(values, k - 1, period \div 2))])

\* ... detrended[j] for j in range(i, len(detrended), period) ...
RECURSIVE Positions(_, _, _)
Positions(detrended, j, period) ==
    IF j >= Len(detrended) THEN <<>>
    ELSE <<detrended[j + 1]>> \o Positions(detrended, j + period, period)

MeanOrZero(positions) == IF positions # <<>> THEN Mean(positions) ELSE Zero

PhaseMeans(detrended, period) ==
    List([k \in 1..period |-> MeanOrZero(Positions(detrended, k - 1, period))])

\* Mutant: the seasonal component left as the phase means.
Centred_PhaseMeans(seasonal) == seasonal

\* ... the seasonal component, centred ...
Centred(seasonal) == Deviations(seasonal, Mean(seasonal))

Detrended(values, trend) ==
    List([k \in 1..Len(values) |-> RSub(values[k], trend[k])])

DecomposeOver(values, trend, period) ==
    [trend |-> trend,
     seasonal |-> Centred(PhaseMeans(Detrended(values, trend), period))]

\* ... and the pair it returns.
SeasonalDecomposition(values, period) ==
    DecomposeOver(values, MovingAverage(values, period), period)

PatternName(period_days) ==
    IF period_days = 7 THEN "weekly"
    ELSE IF period_days = 30 THEN "monthly"
    ELSE <<period_days, "-day cycle">>

\* The label forecast_with_seasonality gives a seasonal vector.
SeasonalPattern(seasonal, period_days) ==
    IF RLt(R(5), IF Len(seasonal) > 1 THEN Stdev(seasonal) ELSE Zero)
    THEN Some(PatternName(period_days))
    ELSE NoneVal

\* One pass of the loop of forecast_with_seasonality: point i (from 0).
SeasonalPoint(point, seasonal_adjustment) ==
    ForecastPoint(
        point.timestamp,
        Clamp(RAdd(point.predicted_utilization, seasonal_adjustment)),
        ClampLow(RAdd(point.confidence_lower, seasonal_adjustment)),
        ClampHigh(RAdd(point.confidence_upper, seasonal_adjustment)))

SeasonalPoints(points, seasonal) ==
    List([k \in 1..Len(points) |->
        SeasonalPoint(points[k], seasonal[((k - 1) % Len(seasonal)) + 1])])

\* forecast_with_seasonality from the trend forecast on; an exception of
\* forecast_linear passes through.
SeasonalResult(trend_call, seasonal, period_days) ==
    IF trend_call.raised # "" THEN trend_call
    ELSE Returned([trend_call.value EXCEPT
            !.forecast_points =
                SeasonalPoints(trend_call.value.forecast_points, seasonal),
            !.seasonal_pattern = SeasonalPattern(seasonal, period_days)])

TrendData(sorted_data, trend) ==
    List([k \in 1..Len(sorted_data) |-> <<sorted_data[k][1], trend[k]>>])

SeasonalOnDecomposition(self, sorted_data, dec, forecast_days, period_days) ==
    SeasonalResult(
        forecast_linear(self, TrendData(sorted_data, dec.trend), forecast_days),
        dec.seasonal, period_days)

SeasonalOnSorted(self, sorted_data, forecast_days, period_days) ==
    SeasonalOnDecomposition(
        self, sorted_data,
        SeasonalDecomposition(Utilizations(sorted_data), period_days),
        forecast_days, period_days)

\* Mutant: the fallback guard compares with period_days, not twice that.
forecast_with_seasonality_OnePeriod(self, historical_data, forecast_days, period_days) ==
    IF Len(historical_data) < period_days
    THEN forecast_linear(self, historical_data, forecast_days)
    ELSE SeasonalOnSorted(self, SortByTime(historical_data), forecast_days,
                          period_days)

\* forecast_with_seasonality
forecast_with_seasonality(self, historical_data, forecast_days, period_days) ==
    IF Len(historical_data) < period_days * 2
    THEN forecast_linear(self, historical_data, forecast_days)
    ELSE SeasonalOnSorted(self, SortByTime(historical_data), forecast_days,
                          period_days)

\* ------------------------------------------------------------ CostCalculator
\* sorted(samples): a new list with the samples in ascending order; entry k
\* is the value with fewer than k samples below it and at least k samples
\* not above it.
SortedSamples(samples) ==
    [k \in 1..Len(samples) |->
        CHOOSE v \in {samples[i] : i \in 1..Len(samples)} :
            /\ Cardinality({i \in 1..Len(samples) : samples[i] < v}) < k
            /\ k <= Cardinality({i \in 1..Len(samples) : samples[i] <= v})]

\* int(len(sorted_samples) * 0.95), brought back to the last index
PercentileIndex(n) ==
    IF (n * 95) \div 100 >= n THEN n - 1 ELSE (n * 95) \div 100

\* _calculate_95th_percentile
Calculate95thPercentile(samples) ==
    IF samples = <<>> THEN 0
    ELSE SortedSamples(samples)[PercentileIndex(Len(samples)) + 1]

\* ------------------------------------------------------ ChannelMetrics
\* The properties of ChannelMetrics; traffic and capacity are whole Mbps.
utilization_in_percent(metrics) ==
    IF metrics.channel.capacity_mbps = 0 THEN Zero
    ELSE RMul(RDiv(R(metrics.traffic_in_mbps), R(metrics.channel.capacity_mbps)),
              Hundred)

utilization_out_percent(metrics) ==
    IF metrics.channel.capacity_mbps = 0 THEN Zero
    ELSE RMul(RDiv(R(metrics.traffic_out_mbps), R(metrics.channel.capacity_mbps)),
              Hundred)

max_utilization_percent(metrics) ==
    RMax(utilization_in_percent(metrics), utilization_out_percent(metrics))

\* ------------------------------------------------- RecommendationEngine
\* A Recommendation: its priority, type and timeline, and a tag for its
\* title; the other texts are left out.
Recommendation(priority, type, title, timeline_weeks) ==
    [priority |-> priority, type |-> type, title |-> title,
     timeline_weeks |-> timeline_weeks]

\* RecommendationEngine.__init__
NewEngine(warning_threshold, critical_threshold) ==
    [warning_threshold |-> warning_threshold,
     critical_threshold |-> critical_threshold]

\* The technical notes of the first recommendation format the peak values
\* with :.1f and add the two averages, which None does not allow.
_critical_utilization_recommendations(self, metrics, forecast) ==
    IF /\ metrics.peak_in_mbps # NoneVal
       /\ metrics.peak_out_mbps # NoneVal
       /\ metrics.avg_in_mbps # NoneVal
       /\ metrics.avg_out_mbps # NoneVal
    THEN Returned(<<Recommendation("critical", "upgrade_capacity",
                                   "immediate upgrade", Some(2)),
                    Recommendation("critical", "optimize_traffic",
                                   "immediate optimization", Some(1))>>)
    ELSE Raised("TypeError")

\* if x: for an Optional[int]: neither None nor 0
Truthy(days) == days # NoneVal /\ days[1] # 0

WarningTimeline(forecast) ==
    IF forecast # NoneVal /\ Truthy(forecast[1].days_to_critical)
    THEN IF forecast[1].days_to_critical[1] < 30 THEN 4
         ELSE IF forecast[1].days_to_critical[1] < 60 THEN 6
         ELSE 8
    ELSE 8

_warning_utilization_recommendations(self, metrics, forecast) ==
    <<Recommendation("high", "upgrade_capacity", "plan upgrade",
                     Some(WarningTimeline(forecast))),
      Recommendation("medium", "monitor", "closer monitoring", Some(1))>>

_error_recommendations(self, metrics) ==
    IF metrics.errors_in + metrics.errors_out > 100
    THEN <<Recommendation("high", "investigate_errors", "interface errors",
                          Some(2))>>
    ELSE <<>>

_traffic_pattern_recommendations(self, metrics) ==
    IF RLt(R(40), RAbs(RSub(utilization_in_percent(metrics),
                            utilization_out_percent(metrics))))
    THEN <<Recommendation("medium", "optimize_traffic", "asymmetric traffic",
                          Some(3))>>
    ELSE <<>>

\* if forecast.days_to_critical and forecast.days_to_critical < 30
CriticalSoon(forecast) ==
    Truthy(forecast.days_to_critical) /\ forecast.days_to_critical[1] < 30

_forecast_based_recommendations(self, metrics, forecast) ==
    (IF forecast.is_accelerating
     THEN <<Recommendation("high", "upgrade_capacity", "accelerating growth",
                           Some(4))>>
     ELSE <<>>)
    \o (IF CriticalSoon(forecast)
        THEN <<Recommendation("critical", "upgrade_capacity",
                              "critical threshold will be reached", Some(2))>>
        ELSE <<>>)
    \o (IF forecast.seasonal_pattern # NoneVal
        THEN <<Recommendation("low", "monitor", "seasonal pattern", NoneVal)>>
        ELSE <<>>)

_channel_type_recommendations(self, metrics) ==
    IF metrics.channel.channel_type = "external"
    THEN IF RLt(R(60), max_utilization_percent(metrics))
         THEN <<Recommendation("medium", "add_redundancy", "redundancy",
                               Some(12))>>
         ELSE <<>>
    ELSE IF metrics.channel.channel_type = "inter_site"
    THEN IF RLt(R(70), max_utilization_percent(metrics))
         THEN <<Recommendation("high", "balance_load", "load balancing",
                               Some(6))>>
         ELSE <<>>
    ELSE IF metrics.channel.channel_type = "transport"
    THEN IF RLt(R(75), max_utilization_percent(metrics))
         THEN <<Recommendation("medium", "implement_qos", "qos", Some(3))>>
         ELSE <<>>
    ELSE <<>>

priority_order == [critical |-> 0, high |-> 1, medium |-> 2, low |-> 3]

WithKey(recommendations, key) ==
    SelectSeq(recommendations, LAMBDA r : priority_order[r.priority] = key)

\* recommendations.sort(key=priority_order[...]): a stable sort on 4 keys
SortByPriority(recommendations) ==
    WithKey(recommendations, 0) \o WithKey(recommendations, 1)
        \o WithKey(recommendations, 2) \o WithKey(recommendations, 3)

\* generate_recommendations from the second step on, the recommendations
\* for the utilization level at hand.
RecommendationsAfter(self, metrics, forecast, level) ==
    SortByPriority(
        level
        \o (IF metrics.errors_in > 0 \/ metrics.errors_out > 0
            THEN _error_recommendations(self, metrics) ELSE <<>>)
        \o _traffic_pattern_recommendations(self, metrics)
        \o (IF forecast # NoneVal
            THEN _forecast_based_recommendations(self, metrics, forecast[1])
            ELSE <<>>)
        \o _channel_type_recommendations(self, metrics))

\* generate_recommendations; forecast is none or <<a ForecastResult>>.
generate_recommendations(self, metrics, forecast) ==
    IF RLe(self.critical_threshold, max_utilization_percent(metrics))
    THEN IF _critical_utilization_recommendations(self, metrics, forecast).raised # ""
         THEN _critical_utilization_recommendations(self, metrics, forecast)
         ELSE Returned(RecommendationsAfter(
                  self, metrics, forecast,
                  _critical_utilization_recommendations(self, metrics, forecast).value))
    ELSE IF RLe(self.warning_threshold, max_utilization_percent(metrics))
    THEN Returned(RecommendationsAfter(
             self, metrics, forecast,
             _warning_utilization_recommendations(self, metrics, forecast)))
    ELSE Returned(RecommendationsAfter(self, metrics, forecast, <<>>))

\* ----------------------------------------------------- CapacityAnalyzer
\* CapacityAnalyzer.__init__ with forecasting and recommendations enabled
NewAnalyzer(warning_threshold, critical_threshold) ==
    [warning_threshold |-> warning_threshold,
     critical_threshold |-> critical_threshold,
     predictor |-> NewPredictor(warning_threshold, critical_threshold,
                                R(CapacityDefault)),
     recommendation_engine |-> NewEngine(warning_threshold, critical_threshold)]

\* ChannelAnalysis(metrics=metrics)
ChannelAnalysis(metrics) ==
    [metrics |-> metrics,
     trend_direction |-> NoneVal,
     trend_rate_percent |-> NoneVal,
     days_to_warning |-> NoneVal,
     days_to_critical |-> NoneVal,
     days_to_capacity |-> NoneVal,
     recommendations |-> <<>>,
     forecast |-> NoneVal,
     structured_recommendations |-> <<>>,
     forecast_confidence |-> NoneVal,
     is_accelerating |-> FALSE,
     seasonal_pattern |-> NoneVal]

\* [(m.timestamp, m.max_utilization_percent) for m in historical_metrics]
HistoricalData(historical_metrics) ==
    List([i \in 1..Len(historical_metrics) |->
        <<historical_metrics[i].timestamp,
          max_utilization_percent(historical_metrics[i])>>])

\* The last day a datetime can hold, as a day number: date.max.toordinal().
DateMax == 3652059

\* forecast_exponential_smoothing as _generate_forecast calls it: with the
\* default alpha, and with timestamps that may be so late that the
\* timestamp of a forecast point is out of range (OverflowError).
AlphaDefault == <<3, 10>>
SmoothingCall(self, historical_data, forecast_days) ==
    IF /\ Len(historical_data) >= 2
       /\ forecast_days >= 1
       /\ SortByTime(historical_data)[Len(historical_data)][1] + forecast_days
              > DateMax
    THEN Raised("OverflowError")
    ELSE IF Len(historical_data) > MaxLen
    THEN forecast_exponential_smoothing_wide(self, historical_data,
                                             forecast_days, AlphaDefault)
    ELSE forecast_exponential_smoothing(self, historical_data, forecast_days,
                                        AlphaDefault)

AnalyzerHorizon == 90

\* _generate_forecast from the predictor's answer on: the forecast with the
\* channel name set, or None after any exception.
GenerateForecastOn(metrics, call) ==
    IF call.raised # "" THEN Returned(NoneVal)
    ELSE Returned(Some([call.value EXCEPT !.channel_name = metrics.channel.name]))

_generate_forecast(self, metrics, historical_metrics) ==
    GenerateForecastOn(
        metrics,
        SmoothingCall(self.predictor, HistoricalData(historical_metrics),
                      AnalyzerHorizon))

\* _generate_recommendations: the texts, by what they are about.
_generate_recommendations(self, metrics) ==
    (IF RLe(self.critical_threshold, max_utilization_percent(metrics))
     THEN <<"critical", "expand in 1-2 weeks">>
     ELSE IF RLe(self.warning_threshold, max_utilization_percent(metrics))
     THEN <<"warning", "expand in 1-2 months">>
     ELSE <<>>)
    \o (IF metrics.errors_in > 0 \/ metrics.errors_out > 0
        THEN <<"errors">> ELSE <<>>)
    \o (IF metrics.discards_in > 0 \/ metrics.discards_out > 0
        THEN <<"discards">> ELSE <<>>)
    \o (IF RLt(R(30), RAbs(RSub(utilization_in_percent(metrics),
                                utilization_out_percent(metrics))))
        THEN <<"imbalance">> ELSE <<>>)

LegacyRecommendations(self, metrics) ==
    IF _generate_recommendations(self, metrics) = <<>> THEN <<"normal">>
    ELSE _generate_recommendations(self, metrics)

\* _analyze_trend: the rates of change between neighbours more than no time
\* apart, on the samples sorted by timestamp ...
RECURSIVE Changes(_, _)
Changes(sorted, i) ==
    IF i > Len(sorted) THEN <<>>
    ELSE (IF sorted[i][1] - sorted[i - 1][1] > 0
          THEN <<RDiv(RSub(sorted[i][2], sorted[i - 1][2]),
                      R(sorted[i][1] - sorted[i - 1][1]))>>
          ELSE <<>>)
         \o Changes(sorted, i + 1)

\* ... and the direction and the rate from their average.
TrendOf(changes) ==
    IF changes = <<>> THEN [direction |-> "stable", rate |-> Zero]
    ELSE [direction |->
              IF RLt(RAbs(Mean(changes)), <<1, 2>>) THEN "stable"
              ELSE IF RLt(Zero, Mean(changes)) THEN "increasing"
              ELSE "decreasing",
          rate |-> RAbs(Mean(changes))]

_analyze_trend(self, historical_metrics) ==
    IF Len(historical_metrics) < 2 THEN [direction |-> "stable", rate |-> Zero]
    ELSE TrendOf(Changes(SortByTime(HistoricalData(historical_metrics)), 2))

_predict_days_to_threshold(current_util, trend_rate, threshold) ==
    IF RLe(threshold, current_util) THEN Some(0)
    ELSE IF RLe(trend_rate, Zero) THEN NoneVal
    ELSE DaysOrNone(RDiv(RSub(threshold, current_util), trend_rate))

\* analyze_channel, step 1: the basic trend analysis; historical_metrics is
\* none or <<a list>>.
TrendTaken(self, analysis, trend) ==
    IF trend.direction = "increasing" /\ RLt(Zero, trend.rate)
    THEN [analysis EXCEPT
            !.trend_direction = Some(trend.direction),
            !.trend_rate_percent = Some(trend.rate),
            !.days_to_warning = _predict_days_to_threshold(
                max_utilization_percent(analysis.metrics), trend.rate,
                self.warning_threshold),
            !.days_to_critical = _predict_days_to_threshold(
                max_utilization_percent(analysis.metrics), trend.rate,
                self.critical_threshold)]
    ELSE [analysis EXCEPT
            !.trend_direction = Some(trend.direction),
            !.trend_rate_percent = Some(trend.rate)]

Analyzed(self, analysis, historical_metrics) ==
    IF historical_metrics # NoneVal /\ Len(historical_metrics[1]) > 1
    THEN TrendTaken(self, analysis, _analyze_trend(self, historical_metrics[1]))
    ELSE analysis

\* Step 2: the forecast taken over; a days_to_* of 0 is not.
WithForecast(analysis, forecast) ==
    IF forecast = NoneVal THEN analysis
    ELSE [analysis EXCEPT
            !.forecast = forecast,
            !.forecast_confidence = Some(forecast[1].forecast_confidence),
            !.is_accelerating = forecast[1].is_accelerating,
            !.seasonal_pattern = forecast[1].seasonal_pattern,
            !.days_to_warning =
                IF Truthy(forecast[1].days_to_warning)
                THEN forecast[1].days_to_warning ELSE @,
            !.days_to_critical =
                IF Truthy(forecast[1].days_to_critical)
                THEN forecast[1].days_to_critical ELSE @,
            !.days_to_capacity =
                IF Truthy(forecast[1].days_to_capacity)
                THEN forecast[1].days_to_capacity ELSE @]

Forecasted(self, analysis, historical_metrics) ==
    IF historical_metrics # NoneVal /\ Len(historical_metrics[1]) >= 7
    THEN IF _generate_forecast(self, analysis.metrics, historical_metrics[1]).raised # ""
         THEN _generate_forecast(self, analysis.metrics, historical_metrics[1])
         ELSE Returned(WithForecast(
                  analysis,
                  _generate_forecast(self, analysis.metrics,
                                     historical_metrics[1]).value))
    ELSE Returned(analysis)

\* Step 3: the structured recommendations; an exception of the engine, and
\* one that came out of step 2, passes through.
Recommended(self, step) ==
    IF step.raised # "" THEN step
    ELSE IF generate_recommendations(self.recommendation_engine,
                                     step.value.metrics,
                                     step.value.forecast).raised # ""
    THEN generate_recommendations(self.recommendation_engine,
                                  step.value.metrics, step.value.forecast)
    ELSE Returned([step.value EXCEPT !.structured_recommendations =
             generate_recommendations(self.recommendation_engine,
                                      step.value.metrics,
                                      step.value.forecast).value])

analyze_channel(self, metrics, historical_metrics) ==
    Recommended(
        self,
        CHOOSE step \in
            {Forecasted(
                 self,
                 Analyzed(self,
                          [ChannelAnalysis(metrics) EXCEPT !.recommendations =
                              LegacyRecommendations(self, metrics)],
                          historical_metrics),
                 historical_metrics)} : TRUE)

\* ------------------------------------------------------------ state machine
VARIABLES
    predictor,  \* the CapacityPredictor: its three thresholds
    pc,         \* "idle": no call; "called": a call is made; "returned": it ended
    op,         \* the method called
    args,       \* its arguments
    outcome,    \* what the call did: [raised, value]
    first,      \* an earlier call kept for comparison: none or <<[op, args, outcome]>>
    frames      \* the calls of concurrent callers, one frame for each

vars == <<predictor, pc, op, args, outcome, first, frames>>

\* The caller's sample lists: (timestamp, utilization) in any order.
Histories == UNION {[1..n -> Days \X Values] : n \in 0..MaxLen}

\* The float utilizations of a sample list.
AsFloats(data) == List([i \in 1..Len(data) |-> <<data[i][1], R(data[i][2])>>])

Alphas == {<<3, 10>>}

\* Arguments of the direct calls of the two shared helpers.
Currents == {0, 50, 69, 70, 90, 100}
Rates == {<<-1, 1>>, <<0, 1>>, <<1, 2>>, <<1, 1>>, <<2, 1>>, <<3, 1>>, <<40, 1>>}
\* Samples for _calculate_95th_percentile: short lists, and the numbers
\* 1..WholeBurst upwards and downwards, the shortest list whose top 5% is a
\* whole sample.
WholeBurst == 20
SampleValues == {1, 2, 3}
SampleLists ==
    UNION {[1..n -> SampleValues] : n \in 0..MaxLen}
    \cup {[i \in 1..WholeBurst |-> i], [i \in 1..WholeBurst |-> WholeBurst + 1 - i]}
AccValues == {0, 10, 22}
Series == UNION {[1..n -> AccValues] : n \in 0..MaxAccLen}
FloatSeries(values) == List([i \in 1..Len(values) |-> R(values[i])])

\* Daily sample lists long enough for two seasonal periods: one sample a
\* day from day 0 on.
DailyValues == UNION {[1..n -> Values] : n \in (MaxLen + 1)..(2 * MaxPeriod)}
\* ... and of one sample more than two of the longest periods, so that the
\* history ends in the middle of a period.
OffPhaseValues == [1..(2 * MaxPeriod + 1) -> Values]
Daily(values) == List([i \in 1..Len(values) |-> <<i - 1, R(values[i])>>])

\* Noise-free daily samples on a line: value = base + slope * day.
LineSlopes == {<<-10, 1>>, <<0, 1>>, <<5, 2>>, <<10, 1>>}
LineBases == {40, 50}
LineHistory(slope, base, n) ==
    List([i \in 1..n |-> <<i - 1, RAdd(R(base), RMul(slope, R(i - 1)))>>])

\* The two end-to-end series, one sample a day, handed over in
\* chronological order or in the reverse of it, with a horizon of two weeks.
FlatScenario == <<40, 41, 39, 40, 40, 41>>
RisingScenario == <<50, 52, 54, 57, 60, 64, 69, 75>>
ScenarioHorizon == 14
Backwards(data) == List([i \in 1..Len(data) |-> data[Len(data) + 1 - i]])
FlatHistories == {Daily(FlatScenario), Backwards(Daily(FlatScenario))}
ScenarioHistories ==
    FlatHistories
    \cup {Daily(RisingScenario), Backwards(Daily(RisingScenario))}

\* Arguments of the direct calls of _seasonal_decomposition: short series
\* with any period, and weekly series value[t] = base + slope * t +
\* pattern[t mod 7] with a zero-mean pattern, decomposed with period 7.
DecValues == {0, 10, 90}
DecSeries == UNION {[1..n -> DecValues] : n \in 0..(2 * MaxPeriod)}
WeekPeriod == 7
WeekBase == 10
WeekSlopes == {0, 1, 5}
WeekPatterns == {<<0, 0, 0, 0, 0, 0, 0>>, <<3, -1, -2, 0, 2, -3, 1>>}
WeekLengths == {2 * WeekPeriod, 2 * WeekPeriod + 1}
WeeklySeries(slope, pattern, n) ==
    List([k \in 1..n |->
        R(WeekBase + slope * (k - 1) + pattern[((k - 1) % WeekPeriod) + 1])])

\* Metrics of a channel of 100 Mbps: traffic in and out below the warning
\* threshold, between the two thresholds and above the critical one, with
\* and without the optional peak and average values.
Traffic == {<<50, 50>>, <<75, 30>>, <<90, 80>>}
ErrorCounts == {0, 101}
ChannelTypes == {"external", "transport", "inter_site"}

ChannelMetrics(channel_type, timestamp, traffic, errors_in, peaks) ==
    [channel |-> [name |-> "c", channel_type |-> channel_type,
                  capacity_mbps |-> 100],
     timestamp |-> timestamp,
     traffic_in_mbps |-> traffic[1],
     traffic_out_mbps |-> traffic[2],
     peak_in_mbps |-> IF peaks THEN Some(traffic[1]) ELSE NoneVal,
     peak_out_mbps |-> IF peaks THEN Some(traffic[2]) ELSE NoneVal,
     avg_in_mbps |-> IF peaks THEN Some(traffic[1]) ELSE NoneVal,
     avg_out_mbps |-> IF peaks THEN Some(traffic[2]) ELSE NoneVal,
     errors_in |-> errors_in,
     errors_out |-> 0,
     discards_in |-> 0,
     discards_out |-> 0]

MetricsInputs ==
    {ChannelMetrics(c[1], 8, c[2], c[3], c[4]) :
        c \in ChannelTypes \X Traffic \X ErrorCounts \X BOOLEAN}

\* Histories for the analyzer: none, the six flat and the eight rising
\* daily samples from day 0 on, and the rising ones so late that the
\* forecast horizon goes beyond the last date there is.
MetricsOf(values, first_day) ==
    List([i \in 1..Len(values) |->
        ChannelMetrics("external", first_day + i - 1, <<values[i], 0>>, 0,
                       FALSE)])
MetricsHistories ==
    {NoneVal, Some(MetricsOf(FlatScenario, 0)), Some(MetricsOf(RisingScenario, 0)),
     Some(MetricsOf(RisingScenario, DateMax - 30))}
\* Lists for _generate_forecast alone: those, a single sample, and two
\* samples on the last two days there are.
ForecastHistories ==
    {h[1] : h \in MetricsHistories \ {NoneVal}}
    \cup {MetricsOf(<<50>>, 0), MetricsOf(<<50, 60>>, DateMax - 1)}
AnalyzedMetrics ==
    {m \in MetricsInputs :
        m.channel.channel_type = "external" /\ m.errors_in = 0}

\* Forecasts handed to the engine: none, or a result with the fields the
\* engine reads.
CriticalDays == {NoneVal, Some(0), Some(29), Some(30), Some(60)}
ForecastInputs ==
    {NoneVal}
    \cup {Some([ForecastResult("c", R(50), <<>>, NoneVal, c[1], NoneVal,
                               Zero, Zero, c[2])
                    EXCEPT !.seasonal_pattern = c[3]]) :
             c \in CriticalDays \X BOOLEAN \X {NoneVal, Some("weekly")}}

Thresholds(self) ==
    {self.warning_threshold, self.critical_threshold, self.capacity_threshold}

\* The calls a caller can make on the predictor.
Calls(self) ==
    {[op |-> "forecast_linear",
      args |-> [historical_data |-> AsFloats(d), forecast_days |-> h]] :
        d \in Histories, h \in 0..MaxHorizon}
    \cup
    {[op |-> "forecast_linear",
      args |-> [historical_data |-> LineHistory(c[1], c[2], c[3]),
                forecast_days |-> c[4]]] :
        c \in LineSlopes \X LineBases \X (2..(MaxLen + 1)) \X (0..MaxHorizon)}
    \cup
    {[op |-> "forecast_exponential_smoothing",
      args |-> [historical_data |-> AsFloats(c[1]), forecast_days |-> c[2],
                alpha |-> c[3]]] :
        c \in Histories \X (0..MaxHorizon) \X Alphas}
    \cup
    {[op |-> "forecast_linear",
      args |-> [historical_data |-> d, forecast_days |-> h]] :
        d \in FlatHistories, h \in (0..MaxHorizon) \cup {ScenarioHorizon}}
    \cup
    {[op |-> "forecast_exponential_smoothing",
      args |-> [historical_data |-> c[1], forecast_days |-> c[2],
                alpha |-> c[3]]] :
        c \in ScenarioHistories \X ((0..MaxHorizon) \cup {ScenarioHorizon})
                 \X Alphas}
    \cup
    {[op |-> "forecast_with_seasonality",
      args |-> [historical_data |-> AsFloats(c[1]), forecast_days |-> c[2],
                period_days |-> c[3]]] :
        c \in Histories \X (0..MaxHorizon) \X (1..MaxPeriod)}
    \cup
    {[op |-> "forecast_with_seasonality",
      args |-> [historical_data |-> Daily(c[1]), forecast_days |-> c[2],
                period_days |-> c[3]]] :
        c \in DailyValues \X (0..MaxHorizon) \X (1..MaxPeriod)}
    \cup
    {[op |-> "forecast_with_seasonality",
      args |-> [historical_data |-> Daily(c[1]), forecast_days |-> c[2],
                period_days |-> MaxPeriod]] :
        c \in OffPhaseValues \X (0..MaxHorizon)}
    \cup
    {[op |-> "_seasonal_decomposition",
      args |-> [values |-> FloatSeries(c[1]), period |-> c[2]]] :
        c \in DecSeries \X (1..MaxPeriod)}
    \cup
    {[op |-> "_seasonal_decomposition",
      args |-> [values |-> WeeklySeries(c[1], c[2], c[3]),
                period |-> WeekPeriod]] :
        c \in WeekSlopes \X WeekPatterns \X WeekLengths}
    \cup
    {[op |-> "_find_threshold_crossing",
      args |-> [current_value |-> R(c[1]), rate |-> c[2], threshold |-> c[3]]] :
        c \in Currents \X Rates \X Thresholds(self)}
    \cup
    {[op |-> "_detect_acceleration", args |-> [values |-> FloatSeries(v)]] :
        v \in Series}
    \cup
    {[op |-> "_calculate_95th_percentile", args |-> [samples |-> v]] :
        v \in SampleLists}
    \cup
    {[op |-> "_generate_forecast",
      args |-> [metrics |-> c[1], historical_metrics |-> c[2]]] :
        c \in AnalyzedMetrics \X ForecastHistories}
    \cup
    {[op |-> "analyze_channel",
      args |-> [metrics |-> c[1], historical_metrics |-> c[2]]] :
        c \in AnalyzedMetrics \X MetricsHistories}
    \cup
    {[op |-> "generate_recommendations",
      args |-> [metrics |-> c[1], forecast |-> c[2]]] :
        c \in MetricsInputs \X ForecastInputs}

\* Callers that share one predictor, and the frame of a caller not in a
\* call.
Workers == {1, 2}
IdleFrame ==
    [pc |-> "idle", op |-> "",
     args |-> [historical_data |-> <<>>, forecast_days |-> 0],
     sorted_data |-> <<>>, fit |-> NoneVal, outcome |-> Returned(NoneVal)]

Init ==
    /\ predictor = NewPredictor(R(WarningDefault), R(CriticalDefault),
                                R(CapacityDefault))
    /\ pc = "idle"
    /\ op = ""
    /\ args = <<>>
    /\ outcome = Returned(NoneVal)
    /\ first = NoneVal
    /\ frames = [w \in Workers |-> IdleFrame]

\* The caller calls a method with its arguments.
Call ==
    /\ pc = "idle"
    /\ \E c \in Calls(predictor) :
          /\ op' = c.op
          /\ args' = c.args
    /\ pc' = "called"
    /\ UNCHANGED <<predictor, outcome, first, frames>>

ForecastLinear ==
    /\ pc = "called"
    /\ op = "forecast_linear"
    /\ outcome' = forecast_linear(predictor, args.historical_data,
                                  args.forecast_days)
    /\ pc' = "returned"
    /\ args' = [args EXCEPT !.historical_data = AfterSorted(@)]
    /\ UNCHANGED <<predictor, op, first, frames>>

ForecastExponentialSmoothing ==
    /\ pc = "called"
    /\ op = "forecast_exponential_smoothing"
    /\ Len(args.historical_data) <= MaxLen
    /\ outcome' = forecast_exponential_smoothing(
                      predictor, args.historical_data, args.forecast_days,
                      args.alpha)
    /\ pc' = "returned"
    /\ args' = [args EXCEPT !.historical_data = AfterSorted(@)]
    /\ UNCHANGED <<predictor, op, first, frames>>

\* The same method on a longer series, in wide decimals.
ForecastExponentialSmoothingWide ==
    /\ pc = "called"
    /\ op = "forecast_exponential_smoothing"
    /\ Len(args.historical_data) > MaxLen
    /\ outcome' = forecast_exponential_smoothing_wide(
                      predictor, args.historical_data, args.forecast_days,
                      args.alpha)
    /\ pc' = "returned"
    /\ args' = [args EXCEPT !.historical_data = AfterSorted(@)]
    /\ UNCHANGED <<predictor, op, first, frames>>

ForecastWithSeasonality ==
    /\ pc = "called"
    /\ op = "forecast_with_seasonality"
    /\ outcome' = forecast_with_seasonality(
                      predictor, args.historical_data, args.forecast_days,
                      args.period_days)
    /\ pc' = "returned"
    /\ args' = [args EXCEPT !.historical_data = AfterSorted(@)]
    /\ UNCHANGED <<predictor, op, first, frames>>

CallFindThresholdCrossing ==
    /\ pc = "called"
    /\ op = "_find_threshold_crossing"
    /\ outcome' = Returned(FindThresholdCrossing(args.current_value, args.rate,
                                                 args.threshold))
    /\ pc' = "returned"
    /\ UNCHANGED <<predictor, op, args, first, frames>>

CallDetectAcceleration ==
    /\ pc = "called"
    /\ op = "_detect_acceleration"
    /\ outcome' = Returned(DetectAcceleration(args.values))
    /\ pc' = "returned"
    /\ UNCHANGED <<predictor, op, args, first, frames>>

CallSeasonalDecomposition ==
    /\ pc = "called"
    /\ op = "_seasonal_decomposition"
    /\ outcome' = Returned(SeasonalDecomposition(args.values, args.period))
    /\ pc' = "returned"
    /\ UNCHANGED <<predictor, op, args, first, frames>>

CallCalculate95thPercentile ==
    /\ pc = "called"
    /\ op = "_calculate_95th_percentile"
    /\ outcome' = Returned(Calculate95thPercentile(args.samples))
    /\ pc' = "returned"
    /\ UNCHANGED <<predictor, op, args, first, frames>>

\* The analyzer around the predictor: the same thresholds for all three.
GenerateForecast ==
    /\ pc = "called"
    /\ op = "_generate_forecast"
    /\ outcome' = _generate_forecast(
                      NewAnalyzer(predictor.warning_threshold,
                                  predictor.critical_threshold),
                      args.metrics, args.historical_metrics)
    /\ pc' = "returned"
    /\ UNCHANGED <<predictor, op, args, first, frames>>

AnalyzeChannel ==
    /\ pc = "called"
    /\ op = "analyze_channel"
    /\ outcome' = analyze_channel(
                      NewAnalyzer(predictor.warning_threshold,
                                  predictor.critical_threshold),
                      args.metrics, args.historical_metrics)
    /\ pc' = "returned"
    /\ UNCHANGED <<predictor, op, args, first, frames>>

\* The engine as CapacityAnalyzer and the defaults build it.
GenerateRecommendations ==
    /\ pc = "called"
    /\ op = "generate_recommendations"
    /\ outcome' = generate_recommendations(
                      NewEngine(predictor.warning_threshold,
                                predictor.critical_threshold),
                      args.metrics, args.forecast)
    /\ pc' = "returned"
    /\ UNCHANGED <<predictor, op, args, first, frames>>

\* The caller takes the result (or the exception) and is ready to call again:
\* nothing of the call is kept but the predictor.
Collect ==
    /\ pc = "returned"
    /\ pc' = "idle"
    /\ op' = ""
    /\ args' = <<>>
    /\ outcome' = Returned(NoneVal)
    /\ first' = IF first = NoneVal THEN first
                ELSE Some([first[1] EXCEPT !.later = Smaller(@ + 1, MaxLater)])
    /\ UNCHANGED <<predictor, frames>>

Next ==
    \/ Call
    \/ ForecastLinear
    \/ ForecastExponentialSmoothing
    \/ ForecastExponentialSmoothingWide
    \/ ForecastWithSeasonality
    \/ CallFindThresholdCrossing
    \/ CallDetectAcceleration
    \/ CallSeasonalDecomposition
    \/ CallCalculate95thPercentile
    \/ GenerateRecommendations
    \/ GenerateForecast
    \/ AnalyzeChannel
    \/ Collect

Spec == Init /\ [][Next]_vars

\* ------------------------------------------------- one call made again
\* The forecast calls of a caller that makes calls again: every method at
\* the longest horizon on two samples of different values, the second a
\* day after the start and the first before it, with it or after it.
RepeatHistories ==
    {AsFloats(d) : d \in {h \in [1..2 -> Days \X Values] :
                             h[2][1] = 1 /\ h[1][2] # h[2][2]}}
RepeatCalls(self) ==
    {[op |-> "forecast_linear",
      args |-> [historical_data |-> d, forecast_days |-> MaxHorizon]] :
        d \in RepeatHistories}
    \cup
    {[op |-> "forecast_exponential_smoothing",
      args |-> [historical_data |-> c[1], forecast_days |-> MaxHorizon,
                alpha |-> c[2]]] :
        c \in RepeatHistories \X Alphas}
    \cup
    {[op |-> "forecast_with_seasonality",
      args |-> [historical_data |-> c[1], forecast_days |-> MaxHorizon,
                period_days |-> c[2]]] :
        c \in RepeatHistories \X (1..MaxPeriod)}

CallAgain ==
    /\ pc = "idle"
    /\ \E c \in RepeatCalls(predictor) :
          /\ op' = c.op
          /\ args' = c.args
    /\ pc' = "called"
    /\ UNCHANGED <<predictor, outcome, first, frames>>

\* The caller keeps what a call was and what it returned, once; Collect
\* counts the calls that end after it, up to MaxLater.
Remember ==
    /\ pc = "returned"
    /\ first = NoneVal
    /\ first' = Some([op |-> op, args |-> args, outcome |-> outcome,
                      later |-> 0])
    /\ UNCHANGED <<predictor, pc, op, args, outcome, frames>>

NextRepeat ==
    \/ CallAgain
    \/ ForecastLinear
    \/ ForecastExponentialSmoothing
    \/ ForecastWithSeasonality
    \/ Remember
    \/ Collect

SpecRepeat == Init /\ [][NextRepeat]_vars

\* ------------------------------------------- calls on a shared predictor
\* forecast_linear and forecast_exponential_smoothing called by several
\* callers at once on one predictor, statement by statement: each call has
\* its own local variables, and self is only read.
ConcurrentCalls ==
    {[op |-> "forecast_linear",
      args |-> [historical_data |-> d, forecast_days |-> MaxHorizon]] :
        d \in RepeatHistories \cup {AsFloats(<<<<0, 90>>>>)}}
    \cup
    {[op |-> "forecast_exponential_smoothing",
      args |-> [historical_data |-> c[1], forecast_days |-> MaxHorizon,
                alpha |-> c[2]]] :
        c \in (RepeatHistories \cup {AsFloats(<<<<0, 90>>>>)}) \X Alphas}

\* Mutant: the local variables kept in one place for all callers, as
\* attributes of the predictor would be.
Local_Shared(w) == 1

\* Where the local variables of the call of caller w are: in its own frame.
Local(w) == w

Enter(w) ==
    /\ frames[w].pc = "idle"
    /\ \E c \in ConcurrentCalls :
          frames' = [frames EXCEPT ![w] =
                        [IdleFrame EXCEPT !.pc = "entered", !.op = c.op,
                                          !.args = c.args]]
    /\ UNCHANGED <<predictor, pc, op, args, outcome, first>>

\* if len(historical_data) < 2: return ...; sorted_data = sorted(...)
SortSamples(w) ==
    /\ frames[w].pc = "entered"
    /\ frames' =
           IF Len(frames[w].args.historical_data) < 2
           THEN [frames EXCEPT
                    ![w].outcome = Returned(EmptyForecast("N/A", Zero)),
                    ![w].pc = "returned"]
           ELSE [frames EXCEPT
                    ![Local(w)].sorted_data =
                        SortByTime(frames[w].args.historical_data),
                    ![w].pc = "sorted"]
    /\ UNCHANGED <<predictor, pc, op, args, outcome, first>>

\* m, b = self._linear_regression(x_values, y_values), or the smoothing
\* loop over the values
Fit(w) ==
    /\ frames[w].pc = "sorted"
    /\ frames' =
           IF frames[w].op = "forecast_linear"
           THEN IF RegressionDivisor(ElapsedDays(frames[Local(w)].sorted_data))
                       = Zero
                THEN [frames EXCEPT
                         ![w].outcome = Raised("ZeroDivisionError"),
                         ![w].pc = "returned"]
                ELSE [frames EXCEPT
                         ![Local(w)].fit = Some(LinearRegression(
                             ElapsedDays(frames[Local(w)].sorted_data),
                             Utilizations(frames[Local(w)].sorted_data))),
                         ![w].pc = "fitted"]
           ELSE [frames EXCEPT
                    ![Local(w)].fit = Some(Smooth(
                        Utilizations(frames[Local(w)].sorted_data),
                        frames[w].args.alpha,
                        Len(frames[Local(w)].sorted_data) - 1)),
                    ![w].pc = "fitted"]
    /\ UNCHANGED <<predictor, pc, op, args, outcome, first>>

\* The forecast points, the crossings of self's thresholds and the result.
Finish(w) ==
    /\ frames[w].pc = "fitted"
    /\ frames' =
           [frames EXCEPT
               ![w].outcome =
                   IF frames[w].op = "forecast_linear"
                   THEN Returned(LinearResult(
                            predictor, frames[Local(w)].sorted_data,
                            ElapsedDays(frames[Local(w)].sorted_data),
                            Utilizations(frames[Local(w)].sorted_data),
                            frames[Local(w)].fit[1],
                            frames[w].args.forecast_days))
                   ELSE Returned(SmoothingResult(
                            predictor, frames[Local(w)].sorted_data,
                            Utilizations(frames[Local(w)].sorted_data),
                            frames[Local(w)].fit[1],
                            frames[w].args.forecast_days)),
               ![w].pc = "returned"]
    /\ UNCHANGED <<predictor, pc, op, args, outcome, first>>

\* The caller has the result; the frame of the call is gone.
Leave(w) ==
    /\ frames[w].pc = "returned"
    /\ frames' = [frames EXCEPT ![w] = IdleFrame]
    /\ UNCHANGED <<predictor, pc, op, args, outcome, first>>

NextConcurrent ==
    \E w \in Workers :
        \/ Enter(w)
        \/ SortSamples(w)
        \/ Fit(w)
        \/ Finish(w)
        \/ Leave(w)

SpecConcurrent == Init /\ [][NextConcurrent]_vars

\* ------------------------------------------------------------------ claims
ForecastOps ==
    {"forecast_linear", "forecast_exponential_smoothing",
     "forecast_with_seasonality"}

\* A forecast method has returned (a result or an exception).
ForecastEnded == pc = "returned" /\ op \in ForecastOps

\* A forecast method has returned a ForecastResult.
ForecastReturned == ForecastEnded /\ outcome.raised = ""

\* a <= b and a < b: on rationals by cross-multiplication, and as wide
\* decimals when one of them is a wide decimal (a tuple of 3).
Wide(v) == Len(v) = 3
AsWide(v) == IF Wide(v) THEN v ELSE DOf(v)
Leq(a, b) ==
    IF Wide(a) \/ Wide(b) THEN DLe(AsWide(a), AsWide(b))
    ELSE a[1] * b[2] <= b[1] * a[2]
Less(a, b) ==
    IF Wide(a) \/ Wide(b) THEN DLt(AsWide(a), AsWide(b))
    ELSE a[1] * b[2] < b[1] * a[2]

InPercent(v) == Leq(<<0, 1>>, v) /\ Leq(v, <<100, 1>>)
InUnit(v) == Leq(<<0, 1>>, v) /\ Leq(v, <<1, 1>>)

Timestamps(data) == {data[i][1] : i \in 1..Len(data)}
LastTimestamp(data) ==
    CHOOSE t \in Timestamps(data) : \A u \in Timestamps(data) : u <= t

\* C1: on 0 or 1 samples each of the three forecast methods (any horizon,
\* any period_days >= 1) returns the empty forecast and does not raise: no
\* points, trend_strength 0, forecast_confidence 0, no days_to_*, not
\* accelerating, no seasonal pattern.
C1_EmptyForecastOnShortInput ==
    (ForecastEnded /\ Len(args.historical_data) < 2) =>
        /\ outcome.raised = ""
        /\ outcome.value.forecast_points = <<>>
        /\ outcome.value.trend_strength = <<0, 1>>
        /\ outcome.value.forecast_confidence = <<0, 1>>
        /\ outcome.value.days_to_warning = NoneVal
        /\ outcome.value.days_to_critical = NoneVal
        /\ outcome.value.days_to_capacity = NoneVal
        /\ outcome.value.is_accelerating = FALSE
        /\ outcome.value.seasonal_pattern = NoneVal

C1_Witness ==
    /\ pc = "returned"
    /\ op = "forecast_with_seasonality"
    /\ Len(args.historical_data) = 1
    /\ args.forecast_days = 2
    /\ args.period_days = 1
    /\ outcome.value.forecast_points = <<>>

\* C2: _find_threshold_crossing looks at "already crossed" before the rate:
\* whatever the rate, it returns 0 when current >= threshold, and it returns
\* None when current < threshold and rate <= 0.
C2_CrossedBeforeRate ==
    (pc = "returned" /\ op = "_find_threshold_crossing") =>
        /\ Leq(args.threshold, args.current_value) => outcome.value = <<0>>
        /\ (Less(args.current_value, args.threshold) /\ args.rate[1] <= 0)
               => outcome.value = NoneVal

C2_Witness ==
    /\ pc = "returned"
    /\ op = "_find_threshold_crossing"
    /\ args.current_value = <<90, 1>>
    /\ args.rate = <<-1, 1>>
    /\ args.threshold = <<85, 1>>
    /\ outcome.value = <<0>>

\* floor((threshold - current) / rate), for rate > 0
FloorDays(current, rate, threshold) ==
    ((threshold[1] * current[2] - current[1] * threshold[2]) * rate[2])
        \div (threshold[2] * current[2] * rate[1])

\* C3: for current < threshold and rate > 0, _find_threshold_crossing
\* returns floor((threshold - current) / rate) when that floor is at least 1
\* and None when that floor is <= 0.
C3_FloorOrNone ==
    (/\ pc = "returned"
     /\ op = "_find_threshold_crossing"
     /\ Less(args.current_value, args.threshold)
     /\ args.rate[1] > 0) =>
        IF FloorDays(args.current_value, args.rate, args.threshold) >= 1
        THEN outcome.value =
                 <<FloorDays(args.current_value, args.rate, args.threshold)>>
        ELSE outcome.value = NoneVal

\* 5 * mid * (last - first of the second half)
\*     > 6 * (n - mid) * (last - first of the first half), mid = n \div 2:
\* second_half_rate > 1.2 * first_half_rate on whole-number values.
SecondRateExceeds(v) ==
    5 * (Len(v) \div 2) * (v[Len(v)][1] - v[(Len(v) \div 2) + 1][1])
        > 6 * (Len(v) - (Len(v) \div 2)) * (v[Len(v) \div 2][1] - v[1][1])

\* C4: _detect_acceleration is true if and only if there are at least 6
\* values and second_half_rate > 1.2 * first_half_rate, the rate of a half
\* being (last - first) / len(half); it is false below 6 values.
C4_AcceleratingIff ==
    (pc = "returned" /\ op = "_detect_acceleration") =>
        (outcome.value = TRUE
            <=> (Len(args.values) >= 6 /\ SecondRateExceeds(args.values)))

C4_Witness ==
    /\ pc = "returned"
    /\ op = "_detect_acceleration"
    /\ Len(args.values) = 7
    /\ outcome.value = TRUE

OddSeries ==
    /\ pc = "returned"
    /\ op = "_detect_acceleration"
    /\ Len(args.values) >= 7
    /\ Len(args.values) % 2 = 1

\* C5 as stated: for an odd number (>= 7) of values the first half of the
\* split of _detect_acceleration has the extra element.
C5_FirstHalfLonger ==
    OddSeries => Len(FirstHalf(args.values)) = Len(SecondHalf(args.values)) + 1

\* C5, amended: for an odd number (>= 7) of values the second half of the
\* split has the extra element, and the two halves make up the series.
C5_SecondHalfLonger ==
    OddSeries =>
        /\ Len(SecondHalf(args.values)) = Len(FirstHalf(args.values)) + 1
        /\ FirstHalf(args.values) \o SecondHalf(args.values) = args.values

C5_Witness ==
    /\ OddSeries
    /\ Len(FirstHalf(args.values)) = 3
    /\ Len(SecondHalf(args.values)) = 4

\* C6: every ForecastPoint of a returned forecast has
\* confidence_lower <= predicted_utilization <= confidence_upper.
C6_BoundsAroundPrediction ==
    ForecastReturned =>
        \A k \in 1..Len(outcome.value.forecast_points) :
            LET point == outcome.value.forecast_points[k]
            IN  /\ Leq(point.confidence_lower, point.predicted_utilization)
                /\ Leq(point.predicted_utilization, point.confidence_upper)

\* C7: every ForecastPoint of a returned forecast has its prediction and
\* both confidence bounds inside [0, 100].
C7_PointsInPercentRange ==
    ForecastReturned =>
        \A k \in 1..Len(outcome.value.forecast_points) :
            LET point == outcome.value.forecast_points[k]
            IN  /\ InPercent(point.predicted_utilization)
                /\ InPercent(point.confidence_lower)
                /\ InPercent(point.confidence_upper)

\* C8: on at least 2 samples and a horizon h >= 0 each forecast method
\* returns exactly h points, the d-th with the timestamp of the
\* chronologically last sample plus d days.
C8_HorizonPoints ==
    (ForecastEnded /\ Len(args.historical_data) >= 2) =>
        /\ outcome.raised = ""
        /\ Len(outcome.value.forecast_points) = args.forecast_days
        /\ \A d \in 1..args.forecast_days :
               outcome.value.forecast_points[d].timestamp
                   = LastTimestamp(args.historical_data) + d

C10_SameTimestampCaught ==
    (/\ ForecastEnded
     /\ op \in {"forecast_linear", "forecast_with_seasonality"}
     /\ Len(args.historical_data) >= 2
     /\ Cardinality(Timestamps(args.historical_data)) = 1) =>
        /\ outcome.raised = ""
        /\ outcome.value.trend_strength = <<0, 1>>
        /\ outcome.value.forecast_confidence = <<0, 1>>

\* The call of forecast_with_seasonality fell back: fewer samples than two
\* periods.
SeasonalFallback ==
    /\ pc = "returned"
    /\ op = "forecast_with_seasonality"
    /\ Len(args.historical_data) < 2 * args.period_days

\* C11: with fewer than 2 * period_days samples forecast_with_seasonality
\* ends exactly as forecast_linear does on the same samples and horizon
\* (the same points, days_to_*, trend_strength, forecast_confidence and
\* is_accelerating), and a result it returns has no seasonal pattern.
C11_FallbackIsLinear ==
    SeasonalFallback =>
        /\ outcome = forecast_linear(predictor, args.historical_data,
                                     args.forecast_days)
        /\ outcome.raised = "" => outcome.value.seasonal_pattern = NoneVal

C11_Witness ==
    /\ SeasonalFallback
    /\ args.period_days = 2
    /\ Len(args.historical_data) = 3
    /\ outcome.raised = ""
    /\ Len(outcome.value.forecast_points) = 2
    /\ outcome.value.forecast_confidence # <<0, 1>>

\* _seasonal_decomposition has returned for a series of at least two periods.
Decomposed ==
    /\ pc = "returned"
    /\ op = "_seasonal_decomposition"
    /\ Len(args.values) >= 2 * args.period

\* The numerators of s over the common denominator d (a multiple of every
\* denominator of s) add up to 0.
RECURSIVE NumeratorSum(_, _)
NumeratorSum(s, d) ==
    IF s = <<>> THEN 0
    ELSE Head(s)[1] * (d \div Head(s)[2]) + NumeratorSum(Tail(s), d)

RECURSIVE CommonDenominator(_)
CommonDenominator(s) ==
    IF s = <<>> THEN 1 ELSE LCM(Head(s)[2], CommonDenominator(Tail(s)))

Within(a, b) == Leq(a, b) /\ Leq(<<-b[1], b[2]>>, a)

Tolerance == <<1, 1000>>

\* _seasonal_decomposition has returned for one of the weekly series
\* value[t] = base + slope * t + pattern[t mod 7].
WeeklyDecomposed == Decomposed /\ args.period = WeekPeriod

\* trend[t] + seasonal[t mod 7] - value[t], for t from 1
RecomposedError(t) ==
    RSub(RAdd(outcome.value.trend[t],
              outcome.value.seasonal[((t - 1) % WeekPeriod) + 1]),
         args.values[t])

\* C13: for a noise-free weekly series (linear trend plus a zero-mean
\* pattern of period 7, at least 14 values) the decomposition with period 7
\* recomposes the series: trend[t] + seasonal[t mod 7] is value[t] within
\* tolerance at every index t, the first and last period // 2 included.
C13_RecomposesSeries ==
    WeeklyDecomposed =>
        \A t \in 1..Len(args.values) : Within(RecomposedError(t), Tolerance)

\* forecast_with_seasonality has returned a result built from a
\* decomposition: at least two periods of samples.
SeasonalReturned ==
    /\ ForecastReturned
    /\ op = "forecast_with_seasonality"
    /\ Len(args.historical_data) >= 2 * args.period_days

\* The point of day k as C14 states it: the trend line m * x + b at the
\* last x plus k and its bounds 2 * width away, each shifted by the
\* seasonal offset and then clamped to [0, 100].
ShiftedThenClamped(ts, predicted, width, offset) ==
    ForecastPoint(ts,
                  Clamp(RAdd(predicted, offset)),
                  Clamp(RAdd(RSub(predicted, RMul(R(2), width)), offset)),
                  Clamp(RAdd(RAdd(predicted, RMul(R(2), width)), offset)))

ShiftedPoint(sorted_data, x, y, reg, seasonal, k) ==
    ShiftedThenClamped(
        sorted_data[Len(sorted_data)][1] + k,
        RAdd(RMul(reg.m, RAdd(x[Len(x)], R(k))), reg.b),
        RMul(CalculateStdError(x, y, reg.m, reg.b),
             Sqrt(RAdd(One, RDiv(R(k), R(Len(x)))))),
        seasonal[((k - 1) % Len(seasonal)) + 1])

ShiftedPoints(sorted_data, x, dec, forecast_days) ==
    [k \in 1..forecast_days |->
        ShiftedPoint(sorted_data, x, dec.trend,
                     LinearRegression(x, dec.trend), dec.seasonal, k)]

ShiftedForecast(sorted_data, forecast_days, period_days) ==
    ShiftedPoints(sorted_data, ElapsedDays(sorted_data),
                  SeasonalDecomposition(Utilizations(sorted_data), period_days),
                  forecast_days)

\* C14: with at least two periods of history every point of
\* forecast_with_seasonality is the trend forecast shifted by the seasonal
\* offset and only then clamped: the prediction and both confidence bounds
\* are clamp[0,100] of the unclamped trend value plus the offset.
C14_ShiftThenClamp ==
    SeasonalReturned =>
        \A k \in 1..args.forecast_days :
            outcome.value.forecast_points[k]
                = ShiftedForecast(SortByTime(args.historical_data),
                                  args.forecast_days, args.period_days)[k]

\* The prediction alone, which C7's one-sided clamps do not touch.
PredictionShiftedThenClamped ==
    SeasonalReturned =>
        \A k \in 1..args.forecast_days :
            outcome.value.forecast_points[k].predicted_utilization
                = ShiftedForecast(SortByTime(args.historical_data),
                                  args.forecast_days, args.period_days)[k]
                      .predicted_utilization

\* forecast_exponential_smoothing has returned for at least 2 samples.
SmoothingReturned ==
    /\ ForecastReturned
    /\ op = "forecast_exponential_smoothing"
    /\ Len(args.historical_data) >= 2

\* The samples' values in chronological order, the last observed value
\* and the trend after the smoothing pass over them.
Chronological == Utilizations(SortByTime(args.historical_data))
LastObserved == Chronological[Len(Chronological)]
FinalTrend ==
    IF Len(Chronological) > MaxLen
    THEN SmoothWide(WideValues(Chronological), DOf(args.alpha),
                    Len(Chronological) - 1).trend
    ELSE Smooth(Chronological, args.alpha, Len(Chronological) - 1).trend
Rising == Less(<<0, 1>>, FinalTrend)

\* days_to_threshold(last observed value, final trend, threshold) when the
\* final trend is > 0, none otherwise.
CrossingIfRising(threshold) ==
    IF ~Rising THEN NoneVal
    ELSE IF Wide(FinalTrend)
    THEN FindThresholdCrossingWide(DOf(LastObserved), FinalTrend, DOf(threshold))
    ELSE FindThresholdCrossing(LastObserved, FinalTrend, threshold)

\* C15: forecast_exponential_smoothing computes the three crossings only
\* when the final smoothed trend is > 0, as days_to_threshold(last observed
\* value, trend, threshold); with a final trend <= 0 all three days_to_*
\* are none, also when the last observed value is at or above a threshold.
C15_CrossingsOnlyWhenRising ==
    SmoothingReturned =>
        /\ outcome.value.days_to_warning
               = CrossingIfRising(predictor.warning_threshold)
        /\ outcome.value.days_to_critical
               = CrossingIfRising(predictor.critical_threshold)
        /\ outcome.value.days_to_capacity
               = CrossingIfRising(predictor.capacity_threshold)
        /\ ~Rising =>
               /\ outcome.value.days_to_warning = NoneVal
               /\ outcome.value.days_to_critical = NoneVal
               /\ outcome.value.days_to_capacity = NoneVal

C15_Witness ==
    /\ SmoothingReturned
    /\ ~Rising
    /\ Leq(predictor.critical_threshold, LastObserved)
    /\ outcome.value.days_to_critical = NoneVal

\* A forecast method has ended on a constant series: at least 2 samples,
\* no two at the same timestamp, all with the same value.
ConstantSeries ==
    /\ ForecastEnded
    /\ Len(args.historical_data) >= 2
    /\ Cardinality(Timestamps(args.historical_data))
           = Len(args.historical_data)
    /\ \A i \in 1..Len(args.historical_data) :
           args.historical_data[i][2] = args.historical_data[1][2]

\* C16: on a constant series each forecast method returns trend_strength 0,
\* forecast_confidence 0 and no days_to_warning, days_to_critical or
\* days_to_capacity.
C16_ConstantSeriesFlat ==
    ConstantSeries =>
        /\ outcome.raised = ""
        /\ outcome.value.trend_strength = <<0, 1>>
        /\ outcome.value.forecast_confidence = <<0, 1>>
        /\ outcome.value.days_to_warning = NoneVal
        /\ outcome.value.days_to_critical = NoneVal
        /\ outcome.value.days_to_capacity = NoneVal

\* The chronological samples of the call, and the line through the first
\* of them and the last: its slope per day and its value at the first.
Sorted == SortByTime(args.historical_data)
FirstSample == Sorted[1]
LastSample == Sorted[Len(Sorted)]
LineSlope ==
    RDiv(RSub(LastSample[2], FirstSample[2]), R(LastSample[1] - FirstSample[1]))
LineAt(t) == RAdd(FirstSample[2], RMul(LineSlope, R(t - FirstSample[1])))

\* forecast_linear has ended on a perfectly linear series: samples at 2 or
\* more distinct timestamps, every one of them on the line y = m * x + b,
\* x the days elapsed since the first sample.
OnALine ==
    /\ pc = "returned"
    /\ op = "forecast_linear"
    /\ Cardinality(Timestamps(args.historical_data)) >= 2
    /\ \A i \in 1..Len(Sorted) : Sorted[i][2] = LineAt(Sorted[i][1])

RegressionOfCall == LinearRegression(ElapsedDays(Sorted), Utilizations(Sorted))

\* C17 as stated: on a perfectly linear series the regression of
\* forecast_linear recovers the slope m and the intercept b, and the
\* forecast_confidence (R squared) of the result is 1.
C17_LineRecoveredConfidenceOne ==
    OnALine =>
        /\ outcome.raised = ""
        /\ RegressionOfCall = [m |-> LineSlope, b |-> FirstSample[2]]
        /\ outcome.value.forecast_confidence = <<1, 1>>

\* C17, amended: the regression recovers m and b, and forecast_confidence
\* is 1 when m # 0 and 0 when m = 0 (a constant series).
C17_LineRecovered ==
    OnALine =>
        /\ outcome.raised = ""
        /\ RegressionOfCall = [m |-> LineSlope, b |-> FirstSample[2]]
        /\ outcome.value.forecast_confidence
               = IF LineSlope = <<0, 1>> THEN <<0, 1>> ELSE <<1, 1>>

C17_Witness ==
    /\ OnALine
    /\ Len(args.historical_data) = 4
    /\ LineSlope = <<5, 2>>
    /\ RegressionOfCall.b = <<40, 1>>
    /\ outcome.value.forecast_confidence = <<1, 1>>

\* confidence_upper - confidence_lower of a point
Width(point) ==
    IF Wide(point.confidence_upper)
    THEN DSub(point.confidence_upper, point.confidence_lower)
    ELSE RSub(point.confidence_upper, point.confidence_lower)

\* C18: in the result of forecast_linear and of
\* forecast_exponential_smoothing the width confidence_upper -
\* confidence_lower of the points does not decrease with the forecast day:
\* width(d2) >= width(d1) for 1 <= d1 <= d2 <= horizon.
C18_WidthNonDecreasing ==
    (/\ ForecastReturned
     /\ op \in {"forecast_linear", "forecast_exponential_smoothing"}) =>
        \A d1, d2 \in 1..Len(outcome.value.forecast_points) :
            d1 <= d2 =>
                Leq(Width(outcome.value.forecast_points[d1]),
                    Width(outcome.value.forecast_points[d2]))

\* A forecast method has returned for the samples of a scenario, handed
\* over in either order.
ScenarioReturned(series) ==
    /\ ForecastReturned
    /\ args.historical_data \in {Daily(series), Backwards(Daily(series))}

\* C19: on the six flat daily samples 40, 41, 39, 40, 40, 41 with the
\* thresholds 70 / 85 / 95 the forecast of exponential smoothing, and
\* likewise the linear one, has no days_to_warning, days_to_critical or
\* days_to_capacity and is not accelerating.
C19_FlatScenarioQuiet ==
    ScenarioReturned(FlatScenario) =>
        /\ outcome.value.days_to_warning = NoneVal
        /\ outcome.value.days_to_critical = NoneVal
        /\ outcome.value.days_to_capacity = NoneVal
        /\ outcome.value.is_accelerating = FALSE

\* forecast_exponential_smoothing has returned for the rising scenario with
\* alpha 0.3 and a horizon of 14 days.
RisingSmoothed ==
    /\ ScenarioReturned(RisingScenario)
    /\ op = "forecast_exponential_smoothing"
    /\ args.alpha = <<3, 10>>
    /\ args.forecast_days = ScenarioHorizon

\* C20: on the eight rising daily samples 50, 52, 54, 57, 60, 64, 69, 75
\* forecast_exponential_smoothing (alpha 0.3, beta 0.1, horizon 14, critical
\* threshold 85), smoothing the samples in chronological order whatever the
\* order they come in, returns days_to_critical as a whole number from 1
\* to 14 and is_accelerating true.
C20_RisingScenarioCritical ==
    RisingSmoothed =>
        /\ outcome.value.days_to_critical # NoneVal
        /\ outcome.value.days_to_critical[1] \in 1..ScenarioHorizon
        /\ outcome.value.is_accelerating = TRUE

C20_Witness ==
    /\ RisingSmoothed
    /\ args.historical_data = Backwards(Daily(RisingScenario))
    /\ predictor.critical_threshold = <<85, 1>>
    /\ outcome.value.days_to_critical = <<3>>
    /\ Len(outcome.value.forecast_points) = ScenarioHorizon

\* What the forecast method o returns (or raises) on the arguments a with
\* data in the place of the samples.
ForecastOn(self, o, a, data) ==
    IF o = "forecast_linear"
    THEN forecast_linear(self, data, a.forecast_days)
    ELSE IF o = "forecast_exponential_smoothing"
    THEN forecast_exponential_smoothing(self, data, a.forecast_days, a.alpha)
    ELSE forecast_with_seasonality(self, data, a.forecast_days, a.period_days)

Rearrangements(n) == {p \in [1..n -> 1..n] : \A i \in 1..n : \E j \in 1..n : p[j] = i}
Permuted(data, p) == List([i \in 1..Len(data) |-> data[p[i]]])

DistinctTimestamps(data) ==
    \A i \in 1..Len(data) : \A j \in 1..Len(data) :
        data[i][1] = data[j][1] => i = j

\* sorted is a rearrangement p of data in ascending order of timestamp in
\* which samples of one timestamp stay in the order they have in data.
StablySorted(data, sorted, p) ==
    /\ sorted = Permuted(data, p)
    /\ \A i \in 1..Len(data) : \A j \in 1..Len(data) :
           i < j => \/ data[p[i]][1] < data[p[j]][1]
                    \/ data[p[i]][1] = data[p[j]][1] /\ p[i] < p[j]

\* The utilization of the sample handed over last among the latest ones.
LastOfLatest(data) ==
    data[CHOOSE i \in 1..Len(data) :
            /\ data[i][1] = LastTimestamp(data)
            /\ \A j \in 1..Len(data) : data[j][1] = LastTimestamp(data) => j <= i][2]

\* A forecast method has ended on at most MaxLen samples.
ShortForecastEnded == ForecastEnded /\ Len(args.historical_data) <= MaxLen

\* C23: each forecast method gives, on samples with pairwise distinct
\* timestamps, the same result (or exception) for every rearrangement of the
\* samples; and the samples are sorted stably: the sorted list keeps samples
\* of one timestamp in the order they came in, so that the current
\* utilization of forecast_linear and forecast_exponential_smoothing is that
\* of the sample handed over last among the latest ones.
C23_InputOrderIrrelevant ==
    ShortForecastEnded =>
        /\ DistinctTimestamps(args.historical_data) =>
               \A p \in Rearrangements(Len(args.historical_data)) :
                   ForecastOn(predictor, op, args,
                              Permuted(args.historical_data, p)) = outcome
        /\ \E p \in Rearrangements(Len(args.historical_data)) :
               StablySorted(args.historical_data,
                            SortByTime(args.historical_data), p)
        /\ (/\ outcome.raised = ""
            /\ Len(args.historical_data) >= 2
            /\ op # "forecast_with_seasonality") =>
               outcome.value.current_utilization
                   = LastOfLatest(args.historical_data)

C23_Witness ==
    /\ ShortForecastEnded
    /\ outcome.raised = ""
    /\ Len(args.historical_data) = 3
    /\ DistinctTimestamps(args.historical_data)
    /\ args.historical_data[1][1] > args.historical_data[2][1]
    /\ args.historical_data[1][2] # args.historical_data[3][2]
    /\ outcome.value.forecast_points # <<>>

\* A days_to_* value: none, or an integer that is not negative.
DaysValue(d) == d = NoneVal \/ (d[1] \in Int /\ d[1] >= 0)

\* Two days_to_* values of a lower and a higher threshold are in order: the
\* higher is none when the lower is, and not earlier when both are defined.
DaysInOrder(lower, higher) ==
    /\ lower = NoneVal => higher = NoneVal
    /\ (lower # NoneVal /\ higher # NoneVal) => lower[1] <= higher[1]

ThresholdsInOrder(self) ==
    /\ RLe(self.warning_threshold, self.critical_threshold)
    /\ RLe(self.critical_threshold, self.capacity_threshold)

\* C28: on a predictor with warning <= critical <= capacity, each of
\* days_to_warning, days_to_critical and days_to_capacity of a returned
\* forecast is none or a non-negative integer, they are in that order when
\* defined, and when a lower threshold's is none so is every higher one's.
C28_DaysToThresholdsOrdered ==
    (ForecastReturned /\ ThresholdsInOrder(predictor)) =>
        /\ DaysValue(outcome.value.days_to_warning)
        /\ DaysValue(outcome.value.days_to_critical)
        /\ DaysValue(outcome.value.days_to_capacity)
        /\ DaysInOrder(outcome.value.days_to_warning,
                       outcome.value.days_to_critical)
        /\ DaysInOrder(outcome.value.days_to_critical,
                       outcome.value.days_to_capacity)

C28_Witness ==
    /\ ForecastReturned
    /\ ThresholdsInOrder(predictor)
    /\ outcome.value.days_to_warning = Some(0)
    /\ outcome.value.days_to_critical # NoneVal
    /\ outcome.value.days_to_capacity # NoneVal
    /\ outcome.value.days_to_critical[1] > 0
    /\ outcome.value.days_to_critical[1] < outcome.value.days_to_capacity[1]

NonIncreasing(values) ==
    \A i \in 1..(Len(values) - 1) : RLe(values[i + 1], values[i])

\* C29: _detect_acceleration returns false for every series of at least 6
\* values that never increases, and returns true only when the rate of the
\* second half is positive.
C29_NoAccelerationWithoutGrowth ==
    (pc = "returned" /\ op = "_detect_acceleration") =>
        /\ (Len(args.values) >= 6 /\ NonIncreasing(args.values)) =>
               outcome.value = FALSE
        /\ outcome.value = TRUE =>
               RLt(Zero, HalfRate(SecondHalf(args.values)))

\* The utilization of the chronologically last sample handed over.
LastObservedOf(data) == SortByTime(data)[Len(data)][2]

\* A days_to_* value worked out from a current value that is already at or
\* above the threshold: never a positive number of days.
FromCurrent(current, threshold, days) ==
    Leq(threshold, current) => days \in {NoneVal, Some(0)}

\* C26: for every forecast method and at least 2 samples, the result's
\* current_utilization is the utilization of the chronologically last
\* sample, and days_to_warning, days_to_critical and days_to_capacity are
\* worked out from that value: a threshold the last sample has reached is
\* never reported as some days ahead.
C26_CurrentIsLastSample ==
    (ForecastReturned /\ Len(args.historical_data) >= 2) =>
        /\ Leq(outcome.value.current_utilization,
               LastObservedOf(args.historical_data))
        /\ Leq(LastObservedOf(args.historical_data),
               outcome.value.current_utilization)
        /\ FromCurrent(LastObservedOf(args.historical_data),
                       predictor.warning_threshold,
                       outcome.value.days_to_warning)
        /\ FromCurrent(LastObservedOf(args.historical_data),
                       predictor.critical_threshold,
                       outcome.value.days_to_critical)
        /\ FromCurrent(LastObservedOf(args.historical_data),
                       predictor.capacity_threshold,
                       outcome.value.days_to_capacity)

\* The points of the trend forecast that forecast_with_seasonality shifts.
TrendPoints ==
    forecast_linear(
        predictor,
        TrendData(SortByTime(args.historical_data),
                  SeasonalDecomposition(
                      Utilizations(SortByTime(args.historical_data)),
                      args.period_days).trend),
        args.forecast_days).value.forecast_points

\* The seasonal offset of the phase that day d after the last of n samples
\* falls in: seasonal[(n - 1 + d) mod period], counted from 0.
PhaseOffset(seasonal, n, d) == seasonal[((n - 1 + d) % Len(seasonal)) + 1]

\* C27: with n >= 2 * period samples the point of forecast day d of
\* forecast_with_seasonality is the point of the trend forecast shifted by
\* seasonal[(n - 1 + d) mod period], the offset of the phase the day falls
\* in when the phases go on from the last sample.
C27_OffsetContinuesPhase ==
    SeasonalReturned =>
        \A d \in 1..args.forecast_days :
            outcome.value.forecast_points[d]
                = SeasonalPoint(
                      TrendPoints[d],
                      PhaseOffset(
                          SeasonalDecomposition(
                              Utilizations(SortByTime(args.historical_data)),
                              args.period_days).seasonal,
                          Len(args.historical_data), d))

\* s in ascending order is t: as many of every value, none before a smaller.
Ascending(s, t) ==
    /\ Len(t) = Len(s)
    /\ \A i \in 1..(Len(t) - 1) : t[i] <= t[i + 1]
    /\ \A v \in {s[i] : i \in 1..Len(s)} \cup {t[i] : i \in 1..Len(t)} :
           Cardinality({i \in 1..Len(s) : s[i] = v})
               = Cardinality({i \in 1..Len(t) : t[i] = v})

\* The highest of the samples left when the top 5% of them, the
\* floor(n * 5 / 100) highest, are discarded.
HighestRemaining(samples) ==
    SortedSamples(samples)[Len(samples) - (Len(samples) * 5) \div 100]

PercentileReturned == pc = "returned" /\ op = "_calculate_95th_percentile"

\* C24: _calculate_95th_percentile returns 0 for an empty list and otherwise
\* the element at index min(floor(n * 0.95), n - 1) of the samples in
\* ascending order, which is the highest value remaining after the top 5%
\* of the samples are discarded; the call leaves the list it was given as
\* it was.
C24_PercentileDiscardsTop ==
    /\ [](PercentileReturned =>
            IF args.samples = <<>> THEN outcome.value = 0
            ELSE /\ Ascending(args.samples, SortedSamples(args.samples))
                 /\ outcome.value
                        = SortedSamples(args.samples)[
                              Smaller((Len(args.samples) * 95) \div 100,
                                      Len(args.samples) - 1) + 1]
                 /\ outcome.value = HighestRemaining(args.samples))
    /\ [][(pc = "called" /\ op = "_calculate_95th_percentile") =>
               args' = args]_vars

\* generate_recommendations has returned a list for a forecast.
RecommendedOnForecast ==
    /\ pc = "returned"
    /\ op = "generate_recommendations"
    /\ outcome.raised = ""
    /\ args.forecast # NoneVal

CriticalWarningIn(recommendations) ==
    \E i \in 1..Len(recommendations) :
        /\ recommendations[i].priority = "critical"
        /\ recommendations[i].title = "critical threshold will be reached"

InPriorityOrder(recommendations) ==
    \A i, j \in 1..Len(recommendations) :
        i < j => priority_order[recommendations[i].priority]
                     <= priority_order[recommendations[j].priority]

\* C30: for every forecast whose days_to_critical is a whole number from 0
\* to 29, 0 included, the list generate_recommendations returns has a
\* CRITICAL "critical threshold will be reached" recommendation, and the
\* list is in the order CRITICAL, HIGH, MEDIUM, LOW.
C30_CriticalWithinThirtyDays ==
    RecommendedOnForecast =>
        /\ (/\ args.forecast[1].days_to_critical # NoneVal
            /\ args.forecast[1].days_to_critical[1] \in 0..29) =>
               CriticalWarningIn(outcome.value)
        /\ InPriorityOrder(outcome.value)

\* What the predictor answers when the analyzer asks it for the forecast of
\* a list of metrics: always exponential smoothing over 90 days.
PredictorAnswer(historical_metrics) ==
    SmoothingCall(predictor, HistoricalData(historical_metrics),
                  AnalyzerHorizon)

\* analyze_channel has ended on a history it forecasts from (7 samples or
\* more) and the predictor raises on it.
AnalyzedWithoutForecast ==
    /\ pc = "returned"
    /\ op = "analyze_channel"
    /\ args.historical_metrics # NoneVal
    /\ Len(args.historical_metrics[1]) >= 7
    /\ PredictorAnswer(args.historical_metrics[1]).raised # ""

\* C25: _generate_forecast always forecasts with exponential smoothing: it
\* returns the predictor's forecast_exponential_smoothing result under the
\* channel's name, and None when the predictor raises; and when the
\* predictor raises, analyze_channel still returns a ChannelAnalysis, with
\* no forecast.
C25_ForecastFailureContained ==
    /\ (pc = "returned" /\ op = "_generate_forecast") =>
           /\ outcome.raised = ""
           /\ outcome.value
                  = IF PredictorAnswer(args.historical_metrics).raised # ""
                    THEN NoneVal
                    ELSE Some([PredictorAnswer(args.historical_metrics).value
                                  EXCEPT !.channel_name =
                                      args.metrics.channel.name])
    /\ AnalyzedWithoutForecast =>
           /\ outcome.raised = ""
           /\ outcome.value.metrics = args.metrics
           /\ outcome.value.forecast = NoneVal

\* The call that has returned is the one kept, made again later.
MadeAgain ==
    /\ pc = "returned"
    /\ first # NoneVal
    /\ first[1].later >= 1
    /\ first[1].op = op
    /\ first[1].args = args

\* C21: a forecast call has no side effects: it leaves the caller's list of
\* samples and the predictor's thresholds as they were, and after any
\* calls in between a call of the same method with the same arguments on
\* the same predictor returns an equal result.
C21_ForecastHasNoSideEffects ==
    /\ [](MadeAgain => outcome = first[1].outcome)
    /\ [][(pc = "called" /\ op \in ForecastOps) =>
              /\ args'.historical_data = args.historical_data
              /\ predictor' = predictor]_vars

C21_Witness ==
    /\ MadeAgain
    /\ first[1].later = MaxLater
    /\ op = "forecast_exponential_smoothing"
    /\ outcome.raised = ""
    /\ args.historical_data[1][1] > args.historical_data[2][1]
    /\ outcome.value.forecast_points # <<>>
    /\ outcome = first[1].outcome

\* What the call of a frame returns when it runs alone, in one piece.
Alone(frame) ==
    IF frame.op = "forecast_linear"
    THEN forecast_linear(predictor, frame.args.historical_data,
                         frame.args.forecast_days)
    ELSE forecast_exponential_smoothing(predictor, frame.args.historical_data,
                                        frame.args.forecast_days,
                                        frame.args.alpha)

\* C22: forecast calls of several callers on one shared predictor,
\* interleaved in any way and without locking, each return what the call
\* returns when it runs alone; and no step of a call writes a variable of
\* another call or of the predictor: a step changes one frame at most.
C22_ConcurrentCallsIndependent ==
    /\ [](\A w \in Workers :
            frames[w].pc = "returned" => frames[w].outcome = Alone(frames[w]))
    /\ [][/\ predictor' = predictor
          /\ \A v, w \in Workers :
                 v # w => frames'[v] = frames[v] \/ frames'[w] = frames[w]]_vars

C22_Witness ==
    /\ frames[2].pc = "returned"
    /\ frames[2].outcome.raised = ""
    /\ frames[2].outcome.value.forecast_points # <<>>
    /\ frames[1].pc = "fitted"
    /\ frames[1].op # frames[2].op
    /\ frames[1].sorted_data # frames[2].sorted_data
    /\ frames[1].sorted_data # frames[1].args.historical_data

====
